---- MODULE Spec2Model ----
(***************************************************************************)
(* redfour: a binary semaphore on Redis.  The model covers the Redis       *)
(* keyspace the library uses (lock hashes with a millisecond expiry, the   *)
(* namespace counter, the release channel), the Lua scripts of             *)
(* acquireLock / releaseLock, the mapping of their replies to the objects  *)
(* handed to the caller, the waiting loop of waitAcquireLock with its two  *)
(* timers and its listener, and the bookkeeping of active operations and   *)
(* of close().                                                             *)
(***************************************************************************)
EXTENDS Integers, Sequences, FiniteSets, TLC

VARIABLES
  hashes,             \* Redis hash keys: key -> [index, pttl]; DOMAIN = the keys that exist
  strings,            \* Redis string keys: key -> integer (the INCR counter)
  inbox,              \* per Lock instance: messages published and not yet handled
  op,                 \* per caller: the call it has in flight, or its last result
  _activeOperations,  \* per Lock instance: this._activeOperations
  _closeCompletion,   \* per Lock instance: this._closeCompletion (position inside _close)
  _closingPrimary,    \* per Lock instance: this._closingPrimary
  _readyToClose,      \* per Lock instance: this._readyToClose
  _redisConnection,   \* per Lock instance: state of the command connection
  _redisSubscriber,   \* per Lock instance: state of the subscription connection
  _subscribers,       \* per Lock instance: this._subscribers, as <<event, listener>> pairs
  closeCalls          \* per Lock instance: the number of calls of close() made, the
                      \* argument of the last one and what it gave its caller

vars == <<hashes, strings, inbox, op, _activeOperations, _closeCompletion,
          _closingPrimary, _readyToClose, _redisConnection, _redisSubscriber,
          _subscribers, closeCalls>>

storeVars == <<hashes, strings, inbox>>
lifecycleVars == <<_closeCompletion, _closingPrimary, _readyToClose,
                   _redisConnection, _redisSubscriber, closeCalls>>

(***************************************************************************)
(* Bounds of the model.                                                    *)
(***************************************************************************)
MaxIndex == 2
MaxTtl == 1
MaxInbox == 1
MaxWait == 1
\* calls of close() on one Lock instance
MaxCloses == 2

\* the shortest delay of a retry of waitAcquireLock, in ms (src/index.js 274)
MinRetryDelay == 100

Locks == {"L1", "L2", "N1", "N2"}
Callers == {"c1", "c2"}
\* users of L1 that call waitAcquireLock
Waiters == {"w1", "w2"}
\* the users of N1 and of N2
Tenants == {"n1", "n2"}
Users == Callers \cup Waiters \cup Tenants
Ids == {"R1", "R2"}
Ttls == 1..MaxTtl
\* indices a caller may put into a handle: the -10 of the tests, the -1 of a failed
\* acquire, and every index the counter can hand out
HandleIndexes == {-10, -1} \cup (1..MaxIndex)
\* waitTtl: no deadline (0), deadlines shorter than the retry delay of
\* waitAcquireLock, and one that is longer by MaxWait
WaitTtls == (0..MaxWait) \cup {MinRetryDelay + MaxWait}

(***************************************************************************)
(* Values that cross the Lua / JavaScript boundary are numbers or strings. *)
(***************************************************************************)
Num(n) == [type |-> "number", num |-> n, str |-> ""]
Str(s) == [type |-> "string", num |-> 0, str |-> s]
\* JavaScript !!v
truthy(v) == IF v.type = "number" THEN v.num # 0 ELSE v.str # ""

(***************************************************************************)
(* The Lock instances.  L1 and L2 use the default namespace, so they share *)
(* the keys and the channel; N1 and N2 have namespaces of their own.  L1   *)
(* was given a connection string, the others an existing client.           *)
(***************************************************************************)
_namespace == [l \in Locks |-> CASE l = "N1" -> "a" [] l = "N2" -> "a:b" [] OTHER -> "lock"]
_primaryIsNovel == [l \in Locks |-> l = "L1"]

lockKey(namespace, id) == namespace \o ":" \o id
counterKey(namespace) == namespace \o "index"
releaseChannel(namespace) == namespace \o "-release"

(***************************************************************************)
(* Redis commands used by the scripts.                                     *)
(***************************************************************************)
EXISTS(h, key) == IF key \in DOMAIN h THEN 1 ELSE 0
PTTL(h, key) == h[key].pttl
HGET(h, key) == h[key].index
DEL(h, key) == [k \in DOMAIN h \ {key} |-> h[k]]
\* HMSET key "index" index on a key that does not exist: a new hash, no expiry (-1)
HMSET(h, key, index) == [k \in DOMAIN h \cup {key} |->
                           IF k = key THEN [index |-> index, pttl |-> -1] ELSE h[k]]
\* PEXPIRE with a non-positive time deletes the key
PEXPIRE(h, key, ttl) == IF ttl <= 0 THEN DEL(h, key)
                        ELSE [h EXCEPT ![key].pttl = ttl]
\* INCR: a missing key counts as 0
INCR(s, key) == IF key \in DOMAIN s THEN s[key] + 1 ELSE 1
SETSTR(s, key, n) == [k \in DOMAIN s \cup {key} |-> IF k = key THEN n ELSE s[k]]
GETSTR(s, key) == IF key \in DOMAIN s THEN s[key] ELSE 0

(***************************************************************************)
(* acquireScript (src/index.js 96-112).  KEYS[1] is the lock key, KEYS[2]  *)
(* the counter key, ARGV[1] the ttl.  The result carries the reply and the *)
(* keyspace the script leaves behind.                                      *)
(***************************************************************************)
acquireScript_noExistsCheck(h, s, KEYS1, KEYS2, ARGV1) ==
  LET index == INCR(s, KEYS2)
  IN [reply |-> <<Num(1), Num(index), Num(ARGV1)>>,
      hashes |-> PEXPIRE(HMSET(h, KEYS1, index), KEYS1, ARGV1),
      strings |-> SETSTR(s, KEYS2, index)]

acquireScript_refreshOnBusy(h, s, KEYS1, KEYS2, ARGV1) ==
  IF EXISTS(h, KEYS1) = 1
  THEN [reply |-> <<Num(0), Num(-1), Num(ARGV1)>>,
        hashes |-> PEXPIRE(h, KEYS1, ARGV1), strings |-> s]
  ELSE LET index == INCR(s, KEYS2)
       IN [reply |-> <<Num(1), Num(index), Num(ARGV1)>>,
           hashes |-> PEXPIRE(HMSET(h, KEYS1, index), KEYS1, ARGV1),
           strings |-> SETSTR(s, KEYS2, index)]

acquireScript_staleIndex(h, s, KEYS1, KEYS2, ARGV1) ==
  IF EXISTS(h, KEYS1) = 1
  THEN [reply |-> <<Num(0), Num(-1), Num(PTTL(h, KEYS1))>>, hashes |-> h, strings |-> s]
  ELSE LET index == INCR(s, KEYS2)
       IN [reply |-> <<Num(1), Num(index), Num(ARGV1)>>,
           hashes |-> PEXPIRE(HMSET(h, KEYS1, GETSTR(s, KEYS2)), KEYS1, ARGV1),
           strings |-> SETSTR(s, KEYS2, index)]

acquireScript_perKeyCounter(h, s, KEYS1, KEYS2, ARGV1) ==
  IF EXISTS(h, KEYS1) = 1
  THEN [reply |-> <<Num(0), Num(-1), Num(PTTL(h, KEYS1))>>, hashes |-> h, strings |-> s]
  ELSE LET index == INCR(s, KEYS2 \o KEYS1)
       IN [reply |-> <<Num(1), Num(index), Num(ARGV1)>>,
           hashes |-> PEXPIRE(HMSET(h, KEYS1, index), KEYS1, ARGV1),
           strings |-> SETSTR(s, KEYS2 \o KEYS1, index)]

acquireScript_incrFirst(h, s, KEYS1, KEYS2, ARGV1) ==
  LET index == INCR(s, KEYS2)
  IN IF EXISTS(h, KEYS1) = 1
     THEN [reply |-> <<Num(0), Num(-1), Num(PTTL(h, KEYS1))>>,
           hashes |-> h, strings |-> SETSTR(s, KEYS2, index)]
     ELSE [reply |-> <<Num(1), Num(index), Num(ARGV1)>>,
           hashes |-> PEXPIRE(HMSET(h, KEYS1, index), KEYS1, ARGV1),
           strings |-> SETSTR(s, KEYS2, index)]

acquireScript_noExpire(h, s, KEYS1, KEYS2, ARGV1) ==
  IF EXISTS(h, KEYS1) = 1
  THEN [reply |-> <<Num(0), Num(-1), Num(PTTL(h, KEYS1))>>, hashes |-> h, strings |-> s]
  ELSE LET index == INCR(s, KEYS2)
       IN [reply |-> <<Num(1), Num(index), Num(ARGV1)>>,
           hashes |-> HMSET(h, KEYS1, index),
           strings |-> SETSTR(s, KEYS2, index)]

acquireScript(h, s, KEYS1, KEYS2, ARGV1) ==
  LET ttl == ARGV1
  IN IF EXISTS(h, KEYS1) = 1
     THEN [reply |-> <<Num(0), Num(-1), Num(PTTL(h, KEYS1))>>, hashes |-> h, strings |-> s]
     ELSE LET index == INCR(s, KEYS2)
          IN [reply |-> <<Num(1), Num(index), Num(ttl)>>,
              hashes |-> PEXPIRE(HMSET(h, KEYS1, index), KEYS1, ttl),
              strings |-> SETSTR(s, KEYS2, index)]

(***************************************************************************)
(* releaseScript (src/index.js 181-196).  KEYS[1] is the lock key, ARGV[1] *)
(* the index of the handle; the channel name is built from the namespace.  *)
(* published is the sequence of messages the script publishes.             *)
(***************************************************************************)
releaseScript_publishAlways(h, namespace, KEYS1, ARGV1) ==
  IF EXISTS(h, KEYS1) = 0
  THEN [reply |-> <<Num(1), Str("expired"), Str("expired"), Num(0)>>,
        hashes |-> h,
        published |-> <<[channel |-> releaseChannel(namespace), message |-> KEYS1]>>]
  ELSE IF HGET(h, KEYS1) = ARGV1
       THEN [reply |-> <<Num(1), Str("released"), Num(HGET(h, KEYS1))>>,
             hashes |-> DEL(h, KEYS1),
             published |-> <<[channel |-> releaseChannel(namespace), message |-> KEYS1]>>]
       ELSE [reply |-> <<Num(0), Str("conflict"), Num(HGET(h, KEYS1))>>,
             hashes |-> h,
             published |-> <<[channel |-> releaseChannel(namespace), message |-> KEYS1]>>]

releaseScript_ignoreIndex(h, namespace, KEYS1, ARGV1) ==
  IF EXISTS(h, KEYS1) = 0
  THEN [reply |-> <<Num(1), Str("expired"), Str("expired"), Num(0)>>,
        hashes |-> h, published |-> <<>>]
  ELSE [reply |-> <<Num(1), Str("released"), Num(HGET(h, KEYS1))>>,
        hashes |-> DEL(h, KEYS1),
        published |-> <<[channel |-> releaseChannel(namespace), message |-> KEYS1]>>]

releaseScript_noPublish(h, namespace, KEYS1, ARGV1) ==
  IF EXISTS(h, KEYS1) = 0
  THEN [reply |-> <<Num(1), Str("expired"), Str("expired"), Num(0)>>,
        hashes |-> h, published |-> <<>>]
  ELSE IF HGET(h, KEYS1) = ARGV1
       THEN [reply |-> <<Num(1), Str("released"), Num(HGET(h, KEYS1))>>,
             hashes |-> DEL(h, KEYS1), published |-> <<>>]
       ELSE [reply |-> <<Num(0), Str("conflict"), Num(HGET(h, KEYS1))>>,
             hashes |-> h, published |-> <<>>]

releaseScript_missingIsConflict(h, namespace, KEYS1, ARGV1) ==
  IF EXISTS(h, KEYS1) = 1 /\ HGET(h, KEYS1) = ARGV1
  THEN [reply |-> <<Num(1), Str("released"), Num(HGET(h, KEYS1))>>,
        hashes |-> DEL(h, KEYS1),
        published |-> <<[channel |-> releaseChannel(namespace), message |-> KEYS1]>>]
  ELSE [reply |-> <<Num(0), Str("conflict"), Num(0)>>,
        hashes |-> h, published |-> <<>>]

releaseScript(h, namespace, KEYS1, ARGV1) ==
  LET index == ARGV1
  IN IF EXISTS(h, KEYS1) = 0
     THEN [reply |-> <<Num(1), Str("expired"), Str("expired"), Num(0)>>,
           hashes |-> h, published |-> <<>>]
     ELSE LET data == [index |-> HGET(h, KEYS1)]
          IN IF data.index = index
             THEN [reply |-> <<Num(1), Str("released"), Num(data.index)>>,
                   hashes |-> DEL(h, KEYS1),
                   published |-> <<[channel |-> releaseChannel(namespace),
                                    message |-> KEYS1]>>]
             ELSE [reply |-> <<Num(0), Str("conflict"), Num(data.index)>>,
                   hashes |-> h, published |-> <<>>]

(***************************************************************************)
(* Renew.  renewLock is declared (index.d.ts 27) and tested, its code is   *)
(* not part of the sources; the script follows the written specification.  *)
(***************************************************************************)
\* variants of the script, used to test the properties
renewScript_noExtend(h, KEYS1, ARGV1, ARGV2) ==
  IF EXISTS(h, KEYS1) = 0
  THEN [reply |-> <<Num(0), Str("missing"), Num(-1)>>, hashes |-> h]
  ELSE IF HGET(h, KEYS1) = ARGV1
       THEN [reply |-> <<Num(1), Str("renewed"), Num(HGET(h, KEYS1))>>, hashes |-> h]
       ELSE [reply |-> <<Num(0), Str("conflict"), Num(-1)>>, hashes |-> h]

renewScript_extendOnConflict(h, KEYS1, ARGV1, ARGV2) ==
  IF EXISTS(h, KEYS1) = 0
  THEN [reply |-> <<Num(0), Str("missing"), Num(-1)>>, hashes |-> h]
  ELSE IF HGET(h, KEYS1) = ARGV1
       THEN [reply |-> <<Num(1), Str("renewed"), Num(HGET(h, KEYS1))>>,
             hashes |-> PEXPIRE(h, KEYS1, ARGV2)]
       ELSE [reply |-> <<Num(0), Str("conflict"), Num(-1)>>,
             hashes |-> PEXPIRE(h, KEYS1, ARGV2)]

renewScript(h, KEYS1, ARGV1, ARGV2) ==
  IF EXISTS(h, KEYS1) = 0
  THEN [reply |-> <<Num(0), Str("missing"), Num(-1)>>, hashes |-> h]
  ELSE IF HGET(h, KEYS1) = ARGV1
       THEN [reply |-> <<Num(1), Str("renewed"), Num(HGET(h, KEYS1))>>,
             hashes |-> PEXPIRE(h, KEYS1, ARGV2)]
       ELSE [reply |-> <<Num(0), Str("conflict"), Num(-1)>>, hashes |-> h]

(***************************************************************************)
(* The mapping of a script's reply to the object the promise resolves to.  *)
(* JavaScript indexes from 0, the tuples here from 1.                      *)
(***************************************************************************)
acquireResult(id, evalResponse) ==
  [id |-> id, success |-> truthy(evalResponse[1]),
   index |-> evalResponse[2], ttl |-> evalResponse[3]]

releaseResult(id, evalResponse) ==
  [id |-> id, success |-> truthy(evalResponse[1]),
   result |-> evalResponse[2], index |-> evalResponse[3]]

renewResult(id, evalResponse) ==
  [id |-> id, success |-> truthy(evalResponse[1]),
   result |-> evalResponse[2], index |-> evalResponse[3]]

(***************************************************************************)
(* A caller is one sequential user of one Lock instance (a process with    *)
(* its own Lock): it has at most one call outstanding.  The operation      *)
(* reference that _active() puts into _activeOperations is identified with *)
(* the caller.                                                             *)
(***************************************************************************)
lockOf == [c \in Users |-> CASE c = "c2" -> "L2" [] c = "n1" -> "N1" [] c = "n2" -> "N2"
                             [] OTHER -> "L1"]
NoResponse == <<>>
NoResult == [id |-> ""]
\* a timer that is not set (never set, cleared, or run)
NoTimer == -1
\* the errors a command can fail with: the store is unreachable, the script fails
TransportErrors == {"ECONNREFUSED", "ERR Error running script"}
NoError == ""
\* err is the error a command failed with; initial, expired, acquiring, ttlTimer and
\* expireLockTimer are the locals of a waitAcquireLock call (src/index.js 238-242, 250)
Idle == [pc |-> "idle", kind |-> "none", id |-> "", ttl |-> 0,
         index |-> 0, evalResponse |-> NoResponse, err |-> NoError, result |-> NoResult,
         initial |-> FALSE, expired |-> FALSE, acquiring |-> FALSE,
         ttlTimer |-> NoTimer, expireLockTimer |-> NoTimer]
Ready(c) == op[c].pc \in {"idle", "done", "rejected"}
Call(kind, id, ttl, index) ==
  [Idle EXCEPT !.pc = "run", !.kind = kind, !.id = id, !.ttl = ttl, !.index = index]
\* the reply has arrived; the ttl argument is not used any more
Replied(o, reply) ==
  [o EXCEPT !.pc = "replied", !.ttl = 0, !.evalResponse = reply]
\* Promise.reject(new Error('redfour lock is closing'))
ClosingError == "redfour lock is closing"
Rejected(kind) ==
  [Idle EXCEPT !.pc = "rejected", !.kind = kind, !.result = [error |-> ClosingError]]
\* the promise of a call rejects with the error of the command
Failed(kind, err) ==
  [Idle EXCEPT !.pc = "rejected", !.kind = kind, !.result = [error |-> err]]

\* The counter is capped by a guard of the specifications: a call that may
\* acquire is made only while the counter has room for it.
InFlightAcquires == Cardinality({c \in Users : op[c].pc = "run" /\ op[c].kind = "acquire"})
\* a waitAcquireLock call that has not returned may still acquire once
PendingWaits ==
  Cardinality({c \in Users : op[c].kind = "waitAcquire"
                               /\ op[c].pc \in {"run", "replied", "waiting"}})
CounterHasRoom(l) ==
  GETSTR(strings, counterKey(_namespace[l])) + InFlightAcquires + PendingWaits < MaxIndex

Init ==
  /\ hashes = [k \in {} |-> [index |-> 0, pttl |-> 0]]
  /\ strings = [k \in {} |-> 0]
  /\ inbox = [l \in Locks |-> <<>>]
  /\ op = [c \in Users |-> Idle]
  /\ _activeOperations = [l \in Locks |-> {}]
  /\ _closeCompletion = [l \in Locks |-> "null"]
  /\ _closingPrimary = [l \in Locks |-> "null"]
  /\ _readyToClose = [l \in Locks |-> "null"]
  /\ _redisConnection = [l \in Locks |-> "open"]
  /\ _redisSubscriber = [l \in Locks |-> "subscribed"]
  /\ _subscribers = [l \in Locks |-> {}]
  /\ closeCalls = [l \in Locks |-> [n |-> 0, arg |-> "none", outcome |-> "none"]]

(***************************************************************************)
(* The constructor (src/index.js 30-87), for an instance that has not been *)
(* made yet: its connections are "none".  options.redis is missing, or is  *)
(* what _primaryIsNovel says: a connection string or an existing client.   *)
(***************************************************************************)
RedisOptions == {"missing", "given"}
AssertionMessage ==
  "Must provide a Redis connection string, options object, or client instance."
Unbuilt(l) == _redisConnection[l] = "none" /\ _redisSubscriber[l] = "none"

\* variant used to test the properties: no assert; createClient gets undefined
constructor_noAssert(c, redis) ==
  /\ Ready(c)
  /\ Unbuilt(lockOf[c])
  /\ LET l == lockOf[c]
     IN /\ _redisConnection' = [_redisConnection EXCEPT ![l] = "open"]
        /\ _redisSubscriber' = [_redisSubscriber EXCEPT ![l] = "subscribed"]
        /\ _activeOperations' = [_activeOperations EXCEPT ![l] = {}]
        /\ _closeCompletion' = [_closeCompletion EXCEPT ![l] = "null"]
        /\ _closingPrimary' = [_closingPrimary EXCEPT ![l] = "null"]
        /\ _readyToClose' = [_readyToClose EXCEPT ![l] = "null"]
        /\ _subscribers' = [_subscribers EXCEPT ![l] = {}]
        /\ op' = [op EXCEPT ![c] = [Idle EXCEPT !.pc = "done", !.kind = "new"]]
        /\ UNCHANGED <<storeVars, closeCalls>>

constructor(c, redis) ==
  /\ Ready(c)
  /\ Unbuilt(lockOf[c])
  /\ LET l == lockOf[c]
     IN IF redis = "missing"
        THEN \* assert(options.redis, ...) throws before any client is created
             /\ op' = [op EXCEPT ![c] = Failed("new", AssertionMessage)]
             /\ UNCHANGED <<storeVars, _activeOperations, lifecycleVars, _subscribers>>
        ELSE /\ _redisConnection' = [_redisConnection EXCEPT ![l] = "open"]
             /\ _redisSubscriber' = [_redisSubscriber EXCEPT ![l] = "subscribed"]
             /\ _activeOperations' = [_activeOperations EXCEPT ![l] = {}]
             /\ _closeCompletion' = [_closeCompletion EXCEPT ![l] = "null"]
             /\ _closingPrimary' = [_closingPrimary EXCEPT ![l] = "null"]
             /\ _readyToClose' = [_readyToClose EXCEPT ![l] = "null"]
             /\ _subscribers' = [_subscribers EXCEPT ![l] = {}]
             /\ op' = [op EXCEPT ![c] = [Idle EXCEPT !.pc = "done", !.kind = "new"]]
             /\ UNCHANGED <<storeVars, closeCalls>>

(***************************************************************************)
(* _active (src/index.js 297-306): register an operation; the function it  *)
(* returns removes it again and wakes a close() that waits for the drain.  *)
(***************************************************************************)
_active(l, c) == _activeOperations' = [_activeOperations EXCEPT ![l] = @ \cup {c}]
\* variant used to test the properties: the last operation does not resolve _readyToClose
done_noResolve(l, c) ==
  /\ _activeOperations' = [_activeOperations EXCEPT ![l] = @ \ {c}]
  /\ UNCHANGED <<_readyToClose, _closeCompletion>>

\* variant used to test the properties: _readyToClose is resolved by any operation
done_resolveAlways(l, c) ==
  /\ _activeOperations' = [_activeOperations EXCEPT ![l] = @ \ {c}]
  /\ IF _readyToClose[l] = "pending"
     THEN /\ _readyToClose' = [_readyToClose EXCEPT ![l] = "resolved"]
          /\ _closeCompletion' = [_closeCompletion EXCEPT ![l] = "quitting"]
     ELSE UNCHANGED <<_readyToClose, _closeCompletion>>

done(l, c) ==
  /\ _activeOperations' = [_activeOperations EXCEPT ![l] = @ \ {c}]
  /\ IF _activeOperations[l] \ {c} = {} /\ _readyToClose[l] = "pending"
     THEN \* _readyToClose.resolve(): _waitReadyToClose returns and _close sends QUIT
          /\ _readyToClose' = [_readyToClose EXCEPT ![l] = "resolved"]
          /\ _closeCompletion' = [_closeCompletion EXCEPT ![l] = "quitting"]
     ELSE UNCHANGED <<_readyToClose, _closeCompletion>>

(***************************************************************************)
(* acquireLock / _acquireLock (src/index.js 92-131, 150-154).              *)
(***************************************************************************)

\* variant used to test the properties: no check of _closeCompletion
acquireLock_noClosingCheck(c, id, ttl) ==
  /\ Ready(c)
  /\ _active(lockOf[c], c)
  /\ op' = [op EXCEPT ![c] = Call("acquire", id, ttl, 0)]
  /\ UNCHANGED <<storeVars, lifecycleVars, _subscribers>>

acquireLock(c, id, ttl) ==
  /\ Ready(c)
  /\ IF _closeCompletion[lockOf[c]] # "null"
     THEN /\ op' = [op EXCEPT ![c] = Rejected("acquire")]
          /\ UNCHANGED _activeOperations
     ELSE /\ _active(lockOf[c], c)
          /\ op' = [op EXCEPT ![c] = Call("acquire", id, ttl, 0)]
  /\ UNCHANGED <<storeVars, lifecycleVars, _subscribers>>

\* the store runs the script as one step
acquireRun(c) ==
  /\ op[c].pc = "run" /\ op[c].kind = "acquire"
  /\ LET namespace == _namespace[lockOf[c]]
         r == acquireScript(hashes, strings, lockKey(namespace, op[c].id),
                            counterKey(namespace), op[c].ttl)
     IN /\ hashes' = r.hashes
        /\ strings' = r.strings
        /\ op' = [op EXCEPT ![c] = Replied(op[c], r.reply)]
  /\ UNCHANGED <<inbox, _activeOperations, lifecycleVars, _subscribers>>
\* variant used to test the properties: done() is called on success only
acquireReturn_noFinally(c) ==
  /\ op[c].pc = "replied" /\ op[c].kind = "acquire"
  /\ IF op[c].err # NoError
     THEN /\ op' = [op EXCEPT ![c] = Failed("acquire", op[c].err)]
          /\ UNCHANGED <<_activeOperations, _readyToClose, _closeCompletion>>
     ELSE /\ op' = [op EXCEPT ![c] =
                      [Idle EXCEPT !.pc = "done", !.kind = "acquire",
                                   !.result = acquireResult(op[c].id, op[c].evalResponse)]]
          /\ done(lockOf[c], c)
  /\ UNCHANGED <<storeVars, _closingPrimary, closeCalls, _redisConnection, _redisSubscriber,
                 _subscribers>>

acquireReturn(c) ==
  /\ op[c].pc = "replied" /\ op[c].kind = "acquire"
  /\ op' = [op EXCEPT ![c] =
               IF op[c].err # NoError
               THEN Failed("acquire", op[c].err)
               ELSE [Idle EXCEPT !.pc = "done", !.kind = "acquire",
                                 !.result = acquireResult(op[c].id, op[c].evalResponse)]]
  /\ done(lockOf[c], c)
  /\ UNCHANGED <<storeVars, _closingPrimary, closeCalls, _redisConnection, _redisSubscriber,
                 _subscribers>>

(***************************************************************************)
(* releaseLock (src/index.js 173-215).                                     *)
(***************************************************************************)
\* PUBLISH reaches every connection subscribed to the channel
Deliver(published) ==
  [l \in Locks |->
     IF _redisSubscriber[l] = "subscribed"
     THEN inbox[l] \o SelectSeq(published,
                                LAMBDA m : m.channel = releaseChannel(_namespace[l]))
     ELSE inbox[l]]

releaseLock(c, id, index) ==
  /\ Ready(c)
  /\ IF _closeCompletion[lockOf[c]] # "null"
     THEN /\ op' = [op EXCEPT ![c] = Rejected("release")]
          /\ UNCHANGED _activeOperations
     ELSE /\ _active(lockOf[c], c)
          /\ op' = [op EXCEPT ![c] = Call("release", id, 0, index)]
  /\ UNCHANGED <<storeVars, lifecycleVars, _subscribers>>

releaseRun(c) ==
  /\ op[c].pc = "run" /\ op[c].kind = "release"
  /\ LET namespace == _namespace[lockOf[c]]
         r == releaseScript(hashes, namespace, lockKey(namespace, op[c].id), op[c].index)
     IN /\ \A l \in Locks : Len(Deliver(r.published)[l]) <= MaxInbox
        /\ hashes' = r.hashes
        /\ inbox' = Deliver(r.published)
        /\ op' = [op EXCEPT ![c] = Replied(op[c], r.reply)]
  /\ UNCHANGED <<strings, _activeOperations, lifecycleVars, _subscribers>>

releaseReturn(c) ==
  /\ op[c].pc = "replied" /\ op[c].kind = "release"
  /\ op' = [op EXCEPT ![c] =
               IF op[c].err # NoError
               THEN Failed("release", op[c].err)
               ELSE [Idle EXCEPT !.pc = "done", !.kind = "release",
                                 !.result = releaseResult(op[c].id, op[c].evalResponse)]]
  /\ done(lockOf[c], c)
  /\ UNCHANGED <<storeVars, _closingPrimary, closeCalls, _redisConnection, _redisSubscriber,
                 _subscribers>>

(***************************************************************************)
(* renewLock, after the written specification (its code is not in the      *)
(* sources): the same wrapping as releaseLock around renewScript.          *)
(***************************************************************************)
renewLock(c, id, index, ttl) ==
  /\ Ready(c)
  /\ IF _closeCompletion[lockOf[c]] # "null"
     THEN /\ op' = [op EXCEPT ![c] = Rejected("renew")]
          /\ UNCHANGED _activeOperations
     ELSE /\ _active(lockOf[c], c)
          /\ op' = [op EXCEPT ![c] = Call("renew", id, ttl, index)]
  /\ UNCHANGED <<storeVars, lifecycleVars, _subscribers>>

\* variant used to test the properties: the renewal publishes like a release
renewRun_publish(c) ==
  /\ op[c].pc = "run" /\ op[c].kind = "renew"
  /\ LET namespace == _namespace[lockOf[c]]
         r == renewScript(hashes, lockKey(namespace, op[c].id), op[c].index, op[c].ttl)
         published == <<[channel |-> releaseChannel(namespace),
                         message |-> lockKey(namespace, op[c].id)]>>
     IN /\ \A l \in Locks : Len(Deliver(published)[l]) <= MaxInbox
        /\ hashes' = r.hashes
        /\ inbox' = Deliver(published)
        /\ op' = [op EXCEPT ![c] = Replied(op[c], r.reply)]
  /\ UNCHANGED <<strings, _activeOperations, lifecycleVars, _subscribers>>

renewRun(c) ==
  /\ op[c].pc = "run" /\ op[c].kind = "renew"
  /\ LET r == renewScript(hashes, lockKey(_namespace[lockOf[c]], op[c].id),
                          op[c].index, op[c].ttl)
     IN /\ hashes' = r.hashes
        /\ op' = [op EXCEPT ![c] = Replied(op[c], r.reply)]
  /\ UNCHANGED <<strings, inbox, _activeOperations, lifecycleVars, _subscribers>>

renewReturn(c) ==
  /\ op[c].pc = "replied" /\ op[c].kind = "renew"
  /\ op' = [op EXCEPT ![c] =
               IF op[c].err # NoError
               THEN Failed("renew", op[c].err)
               ELSE [Idle EXCEPT !.pc = "done", !.kind = "renew",
                                 !.result = renewResult(op[c].id, op[c].evalResponse)]]
  /\ done(lockOf[c], c)
  /\ UNCHANGED <<storeVars, _closingPrimary, closeCalls, _redisConnection, _redisSubscriber,
                 _subscribers>>

(***************************************************************************)
(* A command that fails (src/index.js 114-120, 198-204: callAsync rejects  *)
(* and the await throws).  The error takes the place of the reply.  The    *)
(* store has not run the script (the request did not get there), or has    *)
(* run it and the reply did not get back.                                  *)
(***************************************************************************)
scriptFail(c, err, executed) ==
  /\ op[c].pc = "run"
  /\ LET namespace == _namespace[lockOf[c]]
         key == lockKey(namespace, op[c].id)
         published == IF executed /\ op[c].kind = "release"
                      THEN releaseScript(hashes, namespace, key, op[c].index).published
                      ELSE <<>>
     IN /\ \A l \in Locks : Len(Deliver(published)[l]) <= MaxInbox
        /\ hashes' =
             IF ~executed THEN hashes
             ELSE CASE op[c].kind = "release" ->
                         releaseScript(hashes, namespace, key, op[c].index).hashes
                    [] op[c].kind = "renew" ->
                         renewScript(hashes, key, op[c].index, op[c].ttl).hashes
                    [] OTHER ->
                         acquireScript(hashes, strings, key, counterKey(namespace),
                                       op[c].ttl).hashes
        /\ strings' =
             IF executed /\ op[c].kind \in {"acquire", "waitAcquire"}
             THEN acquireScript(hashes, strings, key, counterKey(namespace),
                                op[c].ttl).strings
             ELSE strings
        /\ inbox' = Deliver(published)
  /\ op' = [op EXCEPT ![c].pc = "replied", ![c].err = err]
  /\ UNCHANGED <<_activeOperations, lifecycleVars, _subscribers>>

(***************************************************************************)
(* Time in the store: one millisecond passes.  A key whose remaining time  *)
(* is 0 ("lock expires by next ms", src/index.js 270) is removed, a key     *)
(* without expiry (-1) stays.                                              *)
(***************************************************************************)
Expire(h) ==
  [k \in {j \in DOMAIN h : h[j].pttl # 0} |->
     IF h[k].pttl > 0 THEN [h[k] EXCEPT !.pttl = @ - 1] ELSE h[k]]

\* ... and in the process: a timer counts down to 0 and is then due
Elapse(t) == IF t > 0 THEN t - 1 ELSE t
TimerRuns(c) == op[c].ttlTimer > 0 \/ op[c].expireLockTimer > 0

Tick ==
  /\ \/ \E k \in DOMAIN hashes : hashes[k].pttl >= 0
     \/ \E c \in Users : TimerRuns(c)
  /\ hashes' = Expire(hashes)
  /\ op' = [c \in Users |-> [op[c] EXCEPT !.ttlTimer = Elapse(@),
                                            !.expireLockTimer = Elapse(@)]]
  /\ UNCHANGED <<strings, inbox, _activeOperations, lifecycleVars, _subscribers>>

(***************************************************************************)
(* waitAcquireLock (src/index.js 233-295).  The position of a call is      *)
(* "run" (an attempt is on its way to the store), "replied" (its reply is  *)
(* in, the callback has not run yet), "waiting" (listener and ttlTimer are *)
(* set) and "done".  A timer holds the milliseconds left; at 0 it is due   *)
(* and its callback runs when the process gets to it.                      *)
(***************************************************************************)
Max(a, b) == IF a >= b THEN a ELSE b
Listener(c) == <<lockKey(_namespace[lockOf[c]], op[c].id), c>>
\* variant used to test the properties: ttlTimer is not cleared
tryAcquire_noClear(o, initial) ==
  [o EXCEPT !.pc = "run", !.initial = initial, !.acquiring = TRUE,
            !.evalResponse = NoResponse]

\* variant used to test the properties: a retry keeps the initial of the first attempt
tryAcquire_keepInitial(o, initial) ==
  [o EXCEPT !.pc = "run", !.initial = (o.kind = "waitAcquire"), !.acquiring = TRUE,
            !.ttlTimer = NoTimer, !.evalResponse = NoResponse]

\* tryAcquire up to the call of _acquireLock: the listener is removed by the caller
tryAcquire(o, initial) ==
  [o EXCEPT !.pc = "run", !.initial = initial, !.acquiring = TRUE,
            !.ttlTimer = NoTimer, !.evalResponse = NoResponse]
\* variant used to test the properties: expireLockTimer is set whatever waitTtl is
waitAcquireLock_alwaysDeadline(c, id, lockTtl, waitTtl) ==
  /\ Ready(c)
  /\ IF _closeCompletion[lockOf[c]] # "null"
     THEN /\ op' = [op EXCEPT ![c] = Rejected("waitAcquire")]
          /\ UNCHANGED _activeOperations
     ELSE /\ _active(lockOf[c], c)
          /\ op' = [op EXCEPT ![c] =
                      tryAcquire([Call("waitAcquire", id, lockTtl, 0) EXCEPT
                                    !.expireLockTimer = waitTtl],
                                 TRUE)]
  /\ UNCHANGED <<storeVars, lifecycleVars, _subscribers>>

waitAcquireLock(c, id, lockTtl, waitTtl) ==
  /\ Ready(c)
  /\ IF _closeCompletion[lockOf[c]] # "null"
     THEN /\ op' = [op EXCEPT ![c] = Rejected("waitAcquire")]
          /\ UNCHANGED _activeOperations
     ELSE /\ _active(lockOf[c], c)
          /\ op' = [op EXCEPT ![c] =
                      tryAcquire([Call("waitAcquire", id, lockTtl, 0) EXCEPT
                                    !.expireLockTimer = IF waitTtl > 0 THEN waitTtl
                                                        ELSE NoTimer],
                                 TRUE)]
  /\ UNCHANGED <<storeVars, lifecycleVars, _subscribers>>
\* variant used to test the properties: the attempt ends like an external call, its
\* finally removes the entry of the call
waitAcquireRun_external(c) ==
  /\ op[c].pc = "run" /\ op[c].kind = "waitAcquire"
  /\ LET namespace == _namespace[lockOf[c]]
         r == acquireScript(hashes, strings, lockKey(namespace, op[c].id),
                            counterKey(namespace), op[c].ttl)
     IN /\ hashes' = r.hashes
        /\ strings' = r.strings
        /\ op' = [op EXCEPT ![c].pc = "replied", ![c].evalResponse = r.reply]
  /\ done(lockOf[c], c)
  /\ UNCHANGED <<inbox, _closingPrimary, closeCalls, _redisConnection, _redisSubscriber,
                 _subscribers>>

\* _acquireLock(id, lockTtl, true): the store runs the script
waitAcquireRun(c) ==
  /\ op[c].pc = "run" /\ op[c].kind = "waitAcquire"
  /\ LET namespace == _namespace[lockOf[c]]
         r == acquireScript(hashes, strings, lockKey(namespace, op[c].id),
                            counterKey(namespace), op[c].ttl)
     IN /\ hashes' = r.hashes
        /\ strings' = r.strings
        /\ op' = [op EXCEPT ![c].pc = "replied", ![c].evalResponse = r.reply]
  /\ UNCHANGED <<inbox, _activeOperations, lifecycleVars, _subscribers>>
\* variant used to test the properties: expireLockTimer is not cleared when the call
\* resolves
waitAcquireCallback_keepDeadline(c) ==
  /\ op[c].pc = "replied" /\ op[c].kind = "waitAcquire"
  /\ LET lock == acquireResult(op[c].id, op[c].evalResponse)
     IN IF op[c].err # NoError
        THEN /\ op' = [op EXCEPT ![c] = Failed("waitAcquire", op[c].err)]
             /\ done(lockOf[c], c)
             /\ UNCHANGED _subscribers
        ELSE IF lock.success \/ op[c].expired
        THEN /\ op' = [op EXCEPT ![c] =
                         [Idle EXCEPT !.pc = "done", !.kind = "waitAcquire",
                                      !.ttlTimer = op[c].ttlTimer,
                                      !.expireLockTimer = op[c].expireLockTimer,
                                      !.result = [id |-> lock.id, success |-> lock.success,
                                                  index |-> lock.index, ttl |-> lock.ttl,
                                                  immediate |-> op[c].initial]]]
             /\ done(lockOf[c], c)
             /\ UNCHANGED _subscribers
        ELSE /\ op' = [op EXCEPT ![c].pc = "waiting", ![c].acquiring = FALSE,
                                 ![c].evalResponse = NoResponse,
                                 ![c].ttlTimer = Max(lock.ttl.num, MinRetryDelay)]
             /\ _subscribers' = [_subscribers EXCEPT ![lockOf[c]] = @ \cup {Listener(c)}]
             /\ UNCHANGED <<_activeOperations, _readyToClose, _closeCompletion>>
  /\ UNCHANGED <<storeVars, _closingPrimary, closeCalls, _redisConnection, _redisSubscriber>>

\* variant used to test the properties: the retry waits for the reported ttl only
waitAcquireCallback_ttlDelay(c) ==
  /\ op[c].pc = "replied" /\ op[c].kind = "waitAcquire"
  /\ LET lock == acquireResult(op[c].id, op[c].evalResponse)
     IN IF op[c].err # NoError
        THEN /\ op' = [op EXCEPT ![c] = Failed("waitAcquire", op[c].err)]
             /\ done(lockOf[c], c)
             /\ UNCHANGED _subscribers
        ELSE IF lock.success \/ op[c].expired
        THEN /\ op' = [op EXCEPT ![c] =
                         [Idle EXCEPT !.pc = "done", !.kind = "waitAcquire",
                                      !.ttlTimer = op[c].ttlTimer,
                                      !.result = [id |-> lock.id, success |-> lock.success,
                                                  index |-> lock.index, ttl |-> lock.ttl,
                                                  immediate |-> op[c].initial]]]
             /\ done(lockOf[c], c)
             /\ UNCHANGED _subscribers
        ELSE /\ op' = [op EXCEPT ![c].pc = "waiting", ![c].acquiring = FALSE,
                                 ![c].evalResponse = NoResponse,
                                 ![c].ttlTimer = Max(lock.ttl.num, 0)]
             /\ _subscribers' = [_subscribers EXCEPT ![lockOf[c]] = @ \cup {Listener(c)}]
             /\ UNCHANGED <<_activeOperations, _readyToClose, _closeCompletion>>
  /\ UNCHANGED <<storeVars, _closingPrimary, closeCalls, _redisConnection, _redisSubscriber>>

\* variants used to test the properties: the call returns a refusal at once; no
\* ttlTimer is set
waitAcquireCallback_giveUp(c) ==
  /\ op[c].pc = "replied" /\ op[c].kind = "waitAcquire"
  /\ LET lock == acquireResult(op[c].id, op[c].evalResponse)
     IN IF lock.success \/ ~lock.success
        THEN /\ op' = [op EXCEPT ![c] =
                         [Idle EXCEPT !.pc = "done", !.kind = "waitAcquire",
                                      !.ttlTimer = op[c].ttlTimer,
                                      !.result = [id |-> lock.id, success |-> lock.success,
                                                  index |-> lock.index, ttl |-> lock.ttl,
                                                  immediate |-> op[c].initial]]]
             /\ done(lockOf[c], c)
             /\ UNCHANGED _subscribers
        ELSE /\ op' = [op EXCEPT ![c].pc = "waiting", ![c].acquiring = FALSE,
                                 ![c].evalResponse = NoResponse,
                                 ![c].ttlTimer = Max(lock.ttl.num, MinRetryDelay)]
             /\ _subscribers' = [_subscribers EXCEPT ![lockOf[c]] = @ \cup {Listener(c)}]
             /\ UNCHANGED <<_activeOperations, _readyToClose, _closeCompletion>>
  /\ UNCHANGED <<storeVars, _closingPrimary, closeCalls, _redisConnection, _redisSubscriber>>

waitAcquireCallback_noFallback(c) ==
  /\ op[c].pc = "replied" /\ op[c].kind = "waitAcquire"
  /\ LET lock == acquireResult(op[c].id, op[c].evalResponse)
     IN IF lock.success \/ op[c].expired
        THEN /\ op' = [op EXCEPT ![c] =
                         [Idle EXCEPT !.pc = "done", !.kind = "waitAcquire",
                                      !.ttlTimer = op[c].ttlTimer,
                                      !.result = [id |-> lock.id, success |-> lock.success,
                                                  index |-> lock.index, ttl |-> lock.ttl,
                                                  immediate |-> op[c].initial]]]
             /\ done(lockOf[c], c)
             /\ UNCHANGED _subscribers
        ELSE /\ op' = [op EXCEPT ![c].pc = "waiting", ![c].acquiring = FALSE,
                                 ![c].evalResponse = NoResponse,
                                 ![c].ttlTimer = NoTimer]
             /\ _subscribers' = [_subscribers EXCEPT ![lockOf[c]] = @ \cup {Listener(c)}]
             /\ UNCHANGED <<_activeOperations, _readyToClose, _closeCompletion>>
  /\ UNCHANGED <<storeVars, _closingPrimary, closeCalls, _redisConnection, _redisSubscriber>>

\* variant used to test the properties: an attempt that failed is taken for a refusal
waitAcquireCallback_retryOnError(c) ==
  /\ op[c].pc = "replied" /\ op[c].kind = "waitAcquire"
  /\ LET lock == acquireResult(op[c].id, op[c].evalResponse)
     IN IF op[c].err = NoError /\ (lock.success \/ op[c].expired)
        THEN /\ op' = [op EXCEPT ![c] =
                         [Idle EXCEPT !.pc = "done", !.kind = "waitAcquire",
                                      !.ttlTimer = op[c].ttlTimer,
                                      !.result = [id |-> lock.id, success |-> lock.success,
                                                  index |-> lock.index, ttl |-> lock.ttl,
                                                  immediate |-> op[c].initial]]]
             /\ done(lockOf[c], c)
             /\ UNCHANGED _subscribers
        ELSE /\ op' = [op EXCEPT ![c].pc = "waiting", ![c].acquiring = FALSE,
                                 ![c].evalResponse = NoResponse, ![c].err = NoError,
                                 ![c].ttlTimer = MinRetryDelay]
             /\ _subscribers' = [_subscribers EXCEPT ![lockOf[c]] = @ \cup {Listener(c)}]
             /\ UNCHANGED <<_activeOperations, _readyToClose, _closeCompletion>>
  /\ UNCHANGED <<storeVars, _closingPrimary, closeCalls, _redisConnection, _redisSubscriber>>

\* the callback of the attempt (254-275), and finally_(..., done) when it resolves
waitAcquireCallback(c) ==
  /\ op[c].pc = "replied" /\ op[c].kind = "waitAcquire"
  /\ LET lock == acquireResult(op[c].id, op[c].evalResponse)
     IN IF op[c].err # NoError
        THEN \* stop waiting: clearTimeout(expireLockTimer), reject(err)
             /\ op' = [op EXCEPT ![c] = Failed("waitAcquire", op[c].err)]
             /\ done(lockOf[c], c)
             /\ UNCHANGED _subscribers
        ELSE IF lock.success \/ op[c].expired
        THEN /\ op' = [op EXCEPT ![c] =
                         [Idle EXCEPT !.pc = "done", !.kind = "waitAcquire",
                                      !.ttlTimer = op[c].ttlTimer,
                                      !.result = [id |-> lock.id, success |-> lock.success,
                                                  index |-> lock.index, ttl |-> lock.ttl,
                                                  immediate |-> op[c].initial]]]
             /\ done(lockOf[c], c)
             /\ UNCHANGED _subscribers
        ELSE /\ op' = [op EXCEPT ![c].pc = "waiting", ![c].acquiring = FALSE,
                                 ![c].evalResponse = NoResponse,
                                 ![c].ttlTimer = Max(lock.ttl.num, MinRetryDelay)]
             /\ _subscribers' = [_subscribers EXCEPT ![lockOf[c]] = @ \cup {Listener(c)}]
             /\ UNCHANGED <<_activeOperations, _readyToClose, _closeCompletion>>
  /\ UNCHANGED <<storeVars, _closingPrimary, closeCalls, _redisConnection, _redisSubscriber>>

\* variant used to test the properties: a retry passes the closing check of acquireLock
ttlTimerFire_closingCheck(c) ==
  /\ op[c].ttlTimer = 0
  /\ op[c].pc = "waiting"
  /\ IF _closeCompletion[lockOf[c]] # "null"
     THEN /\ op' = [op EXCEPT ![c] = Rejected("waitAcquire")]
          /\ done(lockOf[c], c)
     ELSE /\ op' = [op EXCEPT ![c] = tryAcquire(op[c], FALSE)]
          /\ UNCHANGED <<_activeOperations, _readyToClose, _closeCompletion>>
  /\ _subscribers' = [_subscribers EXCEPT ![lockOf[c]] = @ \ {Listener(c)}]
  /\ UNCHANGED <<storeVars, _closingPrimary, closeCalls, _redisConnection, _redisSubscriber>>

\* setTimeout(tryAcquire, ...) runs: initial is undefined, hence false
ttlTimerFire(c) ==
  /\ op[c].ttlTimer = 0
  /\ op[c].pc = "waiting"
  /\ op' = [op EXCEPT ![c] = tryAcquire(op[c], FALSE)]
  /\ _subscribers' = [_subscribers EXCEPT ![lockOf[c]] = @ \ {Listener(c)}]
  /\ UNCHANGED <<storeVars, _activeOperations, lifecycleVars>>
\* variant used to test the properties: the deadline starts an attempt in any case
expireLockTimerFire_always(c) ==
  /\ op[c].expireLockTimer = 0
  /\ op[c].kind = "waitAcquire" /\ op[c].pc \in {"run", "replied", "waiting"}
  /\ LET o == [op[c] EXCEPT !.expired = TRUE, !.ttlTimer = NoTimer,
                            !.expireLockTimer = NoTimer]
     IN op' = [op EXCEPT ![c] = tryAcquire(o, FALSE)]
  /\ _subscribers' = [_subscribers EXCEPT ![lockOf[c]] = @ \ {Listener(c)}]
  /\ UNCHANGED <<storeVars, _activeOperations, lifecycleVars>>

\* variant used to test the properties: the deadline does not set expired
expireLockTimerFire_noFlag(c) ==
  /\ op[c].expireLockTimer = 0
  /\ op[c].kind = "waitAcquire" /\ op[c].pc \in {"run", "replied", "waiting"}
  /\ LET o == [op[c] EXCEPT !.ttlTimer = NoTimer, !.expireLockTimer = NoTimer]
     IN op' = [op EXCEPT ![c] = IF ~op[c].acquiring THEN tryAcquire(o, FALSE) ELSE o]
  /\ _subscribers' = [_subscribers EXCEPT ![lockOf[c]] = @ \ {Listener(c)}]
  /\ UNCHANGED <<storeVars, _activeOperations, lifecycleVars>>

\* the callback of expireLockTimer (279-287)
expireLockTimerFire(c) ==
  /\ op[c].expireLockTimer = 0
  /\ op[c].kind = "waitAcquire" /\ op[c].pc \in {"run", "replied", "waiting"}
  /\ LET o == [op[c] EXCEPT !.expired = TRUE, !.ttlTimer = NoTimer,
                            !.expireLockTimer = NoTimer]
     IN op' = [op EXCEPT ![c] = IF ~op[c].acquiring THEN tryAcquire(o, FALSE) ELSE o]
  /\ _subscribers' = [_subscribers EXCEPT ![lockOf[c]] = @ \ {Listener(c)}]
  /\ UNCHANGED <<storeVars, _activeOperations, lifecycleVars>>

(***************************************************************************)
(* The 'message' handler of the subscriber (src/index.js 78-86).           *)
(* Listeners are registered by waitAcquireLock only; emit calls every      *)
(* listener of the event, that is tryAcquire without an argument.          *)
(***************************************************************************)
listenerCount(l, event) == Cardinality({p \in _subscribers[l] : p[1] = event})

\* variant used to test the properties: a message fires the listeners of every key
onMessage_emitAll(l) ==
  /\ inbox[l] # <<>>
  /\ LET channel == Head(inbox[l]).channel
         message == Head(inbox[l]).message
     IN IF channel # releaseChannel(_namespace[l]) \/ listenerCount(l, message) = 0
        THEN UNCHANGED <<op, _subscribers>>
        ELSE /\ op' = [c \in Users |->
                         IF \E p \in _subscribers[l] : p[2] = c
                         THEN tryAcquire(op[c], FALSE) ELSE op[c]]
             /\ _subscribers' = [_subscribers EXCEPT ![l] = {}]
  /\ inbox' = [inbox EXCEPT ![l] = Tail(@)]
  /\ UNCHANGED <<hashes, strings, _activeOperations, lifecycleVars>>

onMessage(l) ==
  /\ inbox[l] # <<>>
  /\ LET channel == Head(inbox[l]).channel
         message == Head(inbox[l]).message
     IN IF channel # releaseChannel(_namespace[l]) \/ listenerCount(l, message) = 0
        THEN UNCHANGED <<op, _subscribers>>
        ELSE /\ op' = [c \in Users |->
                         IF <<message, c>> \in _subscribers[l]
                         THEN tryAcquire(op[c], FALSE) ELSE op[c]]
             /\ _subscribers' = [_subscribers EXCEPT ![l] = {p \in @ : p[1] # message}]
  /\ inbox' = [inbox EXCEPT ![l] = Tail(@)]
  /\ UNCHANGED <<hashes, strings, _activeOperations, lifecycleVars>>

(***************************************************************************)
(* close / _close / _waitReadyToClose (src/index.js 313-346).              *)
(* _closeCompletion is "null" before close(), then the position of _close: *)
(* "waitReady" (awaiting _readyToClose), "quitting" (QUIT sent),           *)
(* "resolved".                                                             *)
(***************************************************************************)
ClosePrimaryArgs == {"default", "true", "false"}
closePrimaryOf(l, arg) ==
  IF arg = "default" THEN _primaryIsNovel[l] ELSE arg = "true"
boolStr(b) == IF b THEN "true" ELSE "false"

\* the message of the error thrown by a close() that conflicts with the first one
AlreadyClosingError(closePrimary) ==
  "already closing and will " \o (IF closePrimary THEN "not " ELSE "") \o "close primary"
\* variant used to test the properties: close() does not wait for the operations
close_noWait(l, arg) ==
  /\ closeCalls[l].n < MaxCloses
  /\ LET closePrimary == closePrimaryOf(l, arg)
     IN IF _closeCompletion[l] = "null"
        THEN /\ _closingPrimary' = [_closingPrimary EXCEPT ![l] = boolStr(closePrimary)]
             /\ _closeCompletion' = [_closeCompletion EXCEPT ![l] = "quitting"]
             /\ UNCHANGED _readyToClose
             /\ closeCalls' = [closeCalls EXCEPT ![l] =
                                 [n |-> @.n + 1, arg |-> arg, outcome |-> "_closeCompletion"]]
        ELSE /\ closeCalls' = [closeCalls EXCEPT ![l] =
                                 [n |-> @.n + 1, arg |-> arg,
                                  outcome |-> IF _closingPrimary[l] # boolStr(closePrimary)
                                              THEN AlreadyClosingError(closePrimary)
                                              ELSE "_closeCompletion"]]
             /\ UNCHANGED <<_closingPrimary, _readyToClose, _closeCompletion>>
  /\ UNCHANGED <<storeVars, op, _activeOperations, _redisConnection, _redisSubscriber,
                 _subscribers>>

\* variants used to test the properties: a repeated close() starts _close again; a
\* conflicting close() replaces the decision of the first one
close_restart(l, arg) ==
  /\ closeCalls[l].n < MaxCloses
  /\ LET closePrimary == closePrimaryOf(l, arg)
     IN IF _closeCompletion[l] = "null" \/ _closingPrimary[l] = boolStr(closePrimary)
        THEN /\ _closingPrimary' = [_closingPrimary EXCEPT ![l] = boolStr(closePrimary)]
             /\ IF _activeOperations[l] # {}
                THEN /\ _readyToClose' = [_readyToClose EXCEPT ![l] = "pending"]
                     /\ _closeCompletion' = [_closeCompletion EXCEPT ![l] = "waitReady"]
                ELSE /\ _closeCompletion' = [_closeCompletion EXCEPT ![l] = "quitting"]
                     /\ UNCHANGED _readyToClose
             /\ closeCalls' = [closeCalls EXCEPT ![l] =
                                 [n |-> @.n + 1, arg |-> arg, outcome |-> "_closeCompletion"]]
        ELSE /\ closeCalls' = [closeCalls EXCEPT ![l] =
                                 [n |-> @.n + 1, arg |-> arg,
                                  outcome |-> AlreadyClosingError(closePrimary)]]
             /\ UNCHANGED <<_closingPrimary, _readyToClose, _closeCompletion>>
  /\ UNCHANGED <<storeVars, op, _activeOperations, _redisConnection, _redisSubscriber,
                 _subscribers>>

close_lastWins(l, arg) ==
  /\ closeCalls[l].n < MaxCloses
  /\ LET closePrimary == closePrimaryOf(l, arg)
     IN IF _closeCompletion[l] = "null"
        THEN /\ _closingPrimary' = [_closingPrimary EXCEPT ![l] = boolStr(closePrimary)]
             /\ IF _activeOperations[l] # {}
                THEN /\ _readyToClose' = [_readyToClose EXCEPT ![l] = "pending"]
                     /\ _closeCompletion' = [_closeCompletion EXCEPT ![l] = "waitReady"]
                ELSE /\ _closeCompletion' = [_closeCompletion EXCEPT ![l] = "quitting"]
                     /\ UNCHANGED _readyToClose
             /\ closeCalls' = [closeCalls EXCEPT ![l] =
                                 [n |-> @.n + 1, arg |-> arg, outcome |-> "_closeCompletion"]]
        ELSE /\ closeCalls' = [closeCalls EXCEPT ![l] =
                                 [n |-> @.n + 1, arg |-> arg,
                                  outcome |-> IF _closingPrimary[l] # boolStr(closePrimary)
                                              THEN AlreadyClosingError(closePrimary)
                                              ELSE "_closeCompletion"]]
             /\ _closingPrimary' = [_closingPrimary EXCEPT ![l] = boolStr(closePrimary)]
             /\ UNCHANGED <<_readyToClose, _closeCompletion>>
  /\ UNCHANGED <<storeVars, op, _activeOperations, _redisConnection, _redisSubscriber,
                 _subscribers>>

\* close (338-346) with the start of _close (323-324) and _waitReadyToClose; the caller
\* gets this._closeCompletion or the error
close(l, arg) ==
  /\ closeCalls[l].n < MaxCloses
  /\ LET closePrimary == closePrimaryOf(l, arg)
     IN IF _closeCompletion[l] = "null"
        THEN /\ _closingPrimary' = [_closingPrimary EXCEPT ![l] = boolStr(closePrimary)]
             /\ IF _activeOperations[l] # {}
                THEN /\ _readyToClose' = [_readyToClose EXCEPT ![l] = "pending"]
                     /\ _closeCompletion' = [_closeCompletion EXCEPT ![l] = "waitReady"]
                ELSE /\ _closeCompletion' = [_closeCompletion EXCEPT ![l] = "quitting"]
                     /\ UNCHANGED _readyToClose
             /\ closeCalls' = [closeCalls EXCEPT ![l] =
                                 [n |-> @.n + 1, arg |-> arg, outcome |-> "_closeCompletion"]]
        ELSE /\ closeCalls' = [closeCalls EXCEPT ![l] =
                                 [n |-> @.n + 1, arg |-> arg,
                                  outcome |-> IF _closingPrimary[l] # boolStr(closePrimary)
                                              THEN AlreadyClosingError(closePrimary)
                                              ELSE "_closeCompletion"]]
             /\ UNCHANGED <<_closingPrimary, _readyToClose, _closeCompletion>>
  /\ UNCHANGED <<storeVars, op, _activeOperations, _redisConnection, _redisSubscriber,
                 _subscribers>>

\* variant used to test the properties: QUIT goes to both connections
_closeQuit_quitBoth(l) ==
  /\ _closeCompletion[l] = "quitting"
  /\ _redisSubscriber' = [_redisSubscriber EXCEPT ![l] = "closed"]
  /\ _redisConnection' = [_redisConnection EXCEPT ![l] = "closed"]
  /\ inbox' = [inbox EXCEPT ![l] = <<>>]
  /\ _closeCompletion' = [_closeCompletion EXCEPT ![l] = "resolved"]
  /\ UNCHANGED <<hashes, strings, op, _activeOperations, _closingPrimary, _readyToClose,
                 _subscribers, closeCalls>>

_closeQuit(l) ==
  /\ _closeCompletion[l] = "quitting"
  /\ _redisSubscriber' = [_redisSubscriber EXCEPT ![l] = "closed"]
  /\ _redisConnection' = [_redisConnection EXCEPT ![l] =
                            IF _closingPrimary[l] = "true" THEN "closed" ELSE @]
  /\ inbox' = [inbox EXCEPT ![l] = <<>>]
  /\ _closeCompletion' = [_closeCompletion EXCEPT ![l] = "resolved"]
  /\ UNCHANGED <<hashes, strings, op, _activeOperations, _closingPrimary, _readyToClose,
                 _subscribers, closeCalls>>

Next ==
  \/ \E c \in Callers, id \in Ids, ttl \in Ttls :
       CounterHasRoom(lockOf[c]) /\ acquireLock(c, id, ttl)
  \/ \E c \in Callers : acquireRun(c)
  \/ \E c \in Callers : acquireReturn(c)
  \/ \E c \in Callers, id \in Ids, index \in HandleIndexes :
       releaseLock(c, id, index)
  \/ \E c \in Callers : releaseRun(c)
  \/ \E c \in Callers : releaseReturn(c)
  \/ \E c \in Callers, id \in Ids, index \in HandleIndexes, ttl \in Ttls :
       renewLock(c, id, index, ttl)
  \/ \E c \in Callers : renewRun(c)
  \/ \E c \in Callers : renewReturn(c)
  \/ \E c \in Waiters, id \in Ids, lockTtl \in Ttls, waitTtl \in WaitTtls :
       CounterHasRoom(lockOf[c]) /\ waitAcquireLock(c, id, lockTtl, waitTtl)
  \/ \E c \in Waiters : waitAcquireRun(c)
  \/ \E c \in Waiters : waitAcquireCallback(c)
  \/ \E c \in Waiters : ttlTimerFire(c)
  \/ \E c \in Waiters : expireLockTimerFire(c)
  \/ \E c \in Users, err \in TransportErrors, executed \in BOOLEAN :
       scriptFail(c, err, executed)
  \/ Tick
  \/ \E l \in Locks : onMessage(l)
  \/ \E l \in Locks, arg \in ClosePrimaryArgs : close(l, arg)
  \/ \E l \in Locks : _closeQuit(l)

Spec == Init /\ [][Next]_vars

(***************************************************************************)
(* The store protocol alone: callers acquire and release through Lock      *)
(* instances that are not being closed.  Acquisitions are of all ids,      *)
(* releases (and renewals) of one.                                         *)
(***************************************************************************)
RenewId == "R1"
NextStore ==
  \/ \E c \in Callers, id \in Ids, ttl \in Ttls :
       CounterHasRoom(lockOf[c]) /\ acquireLock(c, id, ttl)
  \/ \E c \in Callers : acquireRun(c)
  \/ \E c \in Callers : acquireReturn(c)
  \/ \E c \in Callers, index \in HandleIndexes : releaseLock(c, RenewId, index)
  \/ \E c \in Callers : releaseRun(c)
  \/ \E c \in Callers : releaseReturn(c)
  \/ Tick
  \/ \E l \in Locks : onMessage(l)

SpecStore == Init /\ [][NextStore]_vars

\* ... with renewals, all for one id; handles have the index of some acquisition or
\* the -1 of a refused one
NextRenew ==
  \/ \E c \in Callers, ttl \in Ttls : CounterHasRoom(lockOf[c]) /\ acquireLock(c, RenewId, ttl)
  \/ \E c \in Callers : acquireRun(c)
  \/ \E c \in Callers : acquireReturn(c)
  \/ \E c \in Callers, index \in HandleIndexes \ {-10} : releaseLock(c, RenewId, index)
  \/ \E c \in Callers : releaseRun(c)
  \/ \E c \in Callers : releaseReturn(c)
  \/ Tick
  \/ \E l \in Locks : onMessage(l)
  \/ \E c \in Callers, index \in HandleIndexes \ {-10}, ttl \in Ttls :
       renewLock(c, RenewId, index, ttl)
  \/ \E c \in Callers : renewRun(c)
  \/ \E c \in Callers : renewReturn(c)

SpecRenew == Init /\ [][NextRenew]_vars

\* ... and with locks that are only acquired and left to expire
NextExpiry ==
  \/ \E c \in Callers, id \in Ids, ttl \in Ttls :
       CounterHasRoom(lockOf[c]) /\ acquireLock(c, id, ttl)
  \/ \E c \in Callers : acquireRun(c)
  \/ \E c \in Callers : acquireReturn(c)
  \/ Tick

SpecExpiry == Init /\ [][NextExpiry]_vars

(***************************************************************************)
(* Steps and states the properties speak about.                            *)
(***************************************************************************)
keyOf(c) == lockKey(_namespace[lockOf[c]], op[c].id)
counterOf(c) == counterKey(_namespace[lockOf[c]])
Counter == GETSTR(strings, counterKey("lock"))

\* the store executes the script of caller c in this step
AcquireRan(c) == op[c].pc = "run" /\ op[c].kind = "acquire" /\ op'[c].pc = "replied"
ReleaseRan(c) == op[c].pc = "run" /\ op[c].kind = "release" /\ op'[c].pc = "replied"
RenewRan(c) == op[c].pc = "run" /\ op[c].kind = "renew" /\ op'[c].pc = "replied"
\* the promise of caller c resolves in this step
Returned(c, kind) == op[c].pc = "replied" /\ op[c].kind = kind /\ op'[c].pc = "done"

\* caller c holds the result of a successful acquireLock of id
Acquired(c, id) ==
  /\ op[c].pc = "done" /\ op[c].kind = "acquire"
  /\ op[c].result.id = id /\ op[c].result.success
\* caller c has a reply or a result of a successful acquire of id with this index
Granted(c, id, index) ==
  \/ /\ op[c].pc = "replied" /\ op[c].kind = "acquire" /\ op[c].id = id
     /\ op[c].evalResponse[1] = Num(1) /\ op[c].evalResponse[2] = Num(index)
  \/ /\ Acquired(c, id) /\ op[c].result.index = Num(index)
\* ... of a failed one
Refused(c, id) ==
  \/ /\ op[c].pc = "replied" /\ op[c].kind = "acquire" /\ op[c].id = id
     /\ op[c].evalResponse[1] = Num(0)
  \/ /\ op[c].pc = "done" /\ op[c].kind = "acquire"
     /\ op[c].result.id = id /\ ~op[c].result.success

(***************************************************************************)
(* C1.  Mutual exclusion: an acquire succeeds exactly when no record of    *)
(* the id exists at the moment the store runs it, and it leaves a record   *)
(* behind; so of two acquires of one free id exactly one succeeds, and at  *)
(* no time do two callers hold a grant matching the live record.           *)
(***************************************************************************)
LiveHolders(id) ==
  {c \in Callers : LET key == lockKey(_namespace[lockOf[c]], id)
                   IN key \in DOMAIN hashes /\ Granted(c, id, hashes[key].index)}

C1_MutualExclusion ==
  /\ [](\A id \in Ids : Cardinality(LiveHolders(id)) <= 1)
  /\ [][\A c \in Callers : AcquireRan(c) =>
          /\ truthy(op'[c].evalResponse[1]) <=> keyOf(c) \notin DOMAIN hashes
          /\ keyOf(c) \in DOMAIN hashes']_vars

\* two acquires of the same id are outstanding together: one was granted, one refused
C1_Witness ==
  \E id \in Ids, i \in 1..MaxIndex :
    /\ op["c1"].pc = "replied" /\ op["c2"].pc = "replied"
    /\ \/ Granted("c1", id, i) /\ Refused("c2", id)
       \/ Granted("c2", id, i) /\ Refused("c1", id)

(***************************************************************************)
(* C2.  A release whose index differs from the index stored in the record  *)
(* leaves the keyspace as it is, publishes nothing and replies             *)
(* {0, "conflict", stored index}; the caller gets success:false,           *)
(* result:"conflict" and the stored index.                                 *)
(***************************************************************************)
ConflictReply(index) == <<Num(0), Str("conflict"), Num(index)>>

C2_StaleRelease ==
  [][\A c \in Callers :
       /\ (ReleaseRan(c) /\ keyOf(c) \in DOMAIN hashes
             /\ hashes[keyOf(c)].index # op[c].index) =>
            /\ hashes' = hashes /\ strings' = strings /\ inbox' = inbox
            /\ op'[c].evalResponse = ConflictReply(hashes[keyOf(c)].index)
       /\ (Returned(c, "release") /\ op[c].evalResponse[2] = Str("conflict")) =>
            op'[c].result = [id |-> op[c].id, success |-> FALSE,
                             result |-> Str("conflict"), index |-> op[c].evalResponse[3]]
    ]_vars

\* a handle of an earlier acquisition (or one with -1 or -10) met a record with a newer
\* index: the conflict is reported and the record is still there
C2_Witness ==
  \E c \in Callers, i \in 1..MaxIndex :
    /\ op[c].pc = "replied" /\ op[c].kind = "release"
    /\ op[c].index \in {-10, -1} \cup (1..(i - 1))
    /\ op[c].evalResponse = ConflictReply(i)
    /\ keyOf(c) \in DOMAIN hashes /\ hashes[keyOf(c)].index = i

(***************************************************************************)
(* C3.  An acquire of an id whose record exists replies {0, -1, remaining  *)
(* time of the record} and changes neither the record (index, expiry) nor  *)
(* the counter.  The remaining time is never negative; it is 0 in the last *)
(* millisecond of the record.                                              *)
(***************************************************************************)
BusyAcquire(c) == AcquireRan(c) /\ keyOf(c) \in DOMAIN hashes

C3_BusyAcquire ==
  [][\A c \in Callers : BusyAcquire(c) =>
       /\ op'[c].evalResponse = <<Num(0), Num(-1), Num(hashes[keyOf(c)].pttl)>>
       /\ hashes[keyOf(c)].pttl >= 0
       /\ hashes' = hashes /\ strings' = strings /\ inbox' = inbox
    ]_vars

\* the claim as written: the ttl of the refusal is positive
C3_PositiveTtl ==
  [][\A c \in Callers : BusyAcquire(c) =>
       /\ op'[c].evalResponse = <<Num(0), Num(-1), Num(hashes[keyOf(c)].pttl)>>
       /\ hashes[keyOf(c)].pttl > 0
       /\ hashes' = hashes /\ strings' = strings /\ inbox' = inbox
    ]_vars

\* a refused acquire next to the holder, whose handle still matches the record
C3_Witness ==
  \E c, d \in Callers, id \in Ids, i \in 1..MaxIndex :
    /\ c # d
    /\ op[c].pc = "replied" /\ Refused(c, id)
    /\ Acquired(d, id) /\ op[d].result.index = Num(i)
    /\ keyOf(c) \in DOMAIN hashes /\ hashes[keyOf(c)].index = i
    /\ op[c].evalResponse[3] = Num(hashes[keyOf(c)].pttl)

(***************************************************************************)
(* C4.  An acquire of an id without record, in one step of the store,      *)
(* increments the counter by one, creates the record with the new counter  *)
(* value as index and the requested ttl as expiry, and the caller gets     *)
(* {id, success:true, index: the new value (> 0), ttl: the requested ttl}. *)
(***************************************************************************)
C4_FreeAcquire ==
  [][\A c \in Callers :
       /\ (AcquireRan(c) /\ keyOf(c) \notin DOMAIN hashes) =>
            LET index == GETSTR(strings, counterOf(c)) + 1
            IN /\ index > 0
               /\ strings' = SETSTR(strings, counterOf(c), index)
               /\ DOMAIN hashes' = DOMAIN hashes \cup {keyOf(c)}
               /\ hashes'[keyOf(c)] = [index |-> index, pttl |-> op[c].ttl]
               /\ \A k \in DOMAIN hashes : hashes'[k] = hashes[k]
               /\ op'[c].evalResponse = <<Num(1), Num(index), Num(op[c].ttl)>>
       /\ (Returned(c, "acquire") /\ op[c].evalResponse[1] = Num(1)) =>
            op'[c].result = [id |-> op[c].id, success |-> TRUE,
                             index |-> op[c].evalResponse[2],
                             ttl |-> op[c].evalResponse[3]]
    ]_vars

\* a caller holds the handle of the acquisition that made the live record
C4_Witness ==
  \E c \in Callers, id \in Ids :
    /\ Acquired(c, id)
    /\ op[c].result.index = Num(Counter)
    /\ lockKey("lock", id) \in DOMAIN hashes
    /\ hashes[lockKey("lock", id)].index = Counter

(***************************************************************************)
(* C5.  A release with the index stored in the record, in one step of the  *)
(* store, deletes the record and publishes the lock key once on the        *)
(* release channel of the namespace; the caller gets success:true,         *)
(* result:"released" and the released index.                               *)
(***************************************************************************)
C5_Release ==
  [][\A c \in Callers :
       /\ (ReleaseRan(c) /\ keyOf(c) \in DOMAIN hashes
             /\ hashes[keyOf(c)].index = op[c].index) =>
            /\ hashes' = DEL(hashes, keyOf(c))
            /\ strings' = strings
            /\ \A l \in {"L1", "L2"} :
                 inbox'[l] = Append(inbox[l], [channel |-> "lock-release",
                                               message |-> "lock:" \o op[c].id])
            /\ op'[c].evalResponse = <<Num(1), Str("released"), Num(op[c].index)>>
       /\ (Returned(c, "release") /\ op[c].evalResponse[2] = Str("released")) =>
            op'[c].result = [id |-> op[c].id, success |-> TRUE,
                             result |-> Str("released"), index |-> Num(op[c].index)]
    ]_vars

\* the record is gone and the message waits at both subscribers
C5_Witness ==
  \E c \in Callers, id \in Ids :
    /\ op[c].pc = "replied" /\ op[c].kind = "release" /\ op[c].id = id
    /\ op[c].evalResponse[2] = Str("released")
    /\ lockKey("lock", id) \notin DOMAIN hashes
    /\ \A l \in {"L1", "L2"} : inbox[l] = <<[channel |-> "lock-release",
                                           message |-> lockKey("lock", id)]>>

(***************************************************************************)
(* C6.  Release is idempotent: when a handle has been released and no      *)
(* record of the id exists, releasing the same handle again replies        *)
(* success with "expired" and leaves the store as the first release left   *)
(* it; the caller gets success:true, result:"expired".                     *)
(***************************************************************************)
\* caller d holds the result of the release that deleted the record of this handle
ReleasedBy(d, id, index) ==
  /\ op[d].pc = "done" /\ op[d].kind = "release"
  /\ op[d].result.id = id
  /\ op[d].result.result = Str("released") /\ op[d].result.index = Num(index)

C6_ReleaseIdempotent ==
  [][\A c, d \in Callers :
       /\ (ReleaseRan(c) /\ ReleasedBy(d, op[c].id, op[c].index)
             /\ keyOf(c) \notin DOMAIN hashes) =>
            /\ op'[c].evalResponse[1] = Num(1)
            /\ op'[c].evalResponse[2] = Str("expired")
            /\ hashes' = hashes /\ strings' = strings /\ inbox' = inbox
       /\ (Returned(c, "release") /\ op[c].evalResponse[2] = Str("expired")) =>
            /\ op'[c].result.success
            /\ op'[c].result.result = Str("expired")
            /\ op'[c].result.id = op[c].id
    ]_vars

\* the second release of a handle has been answered
C6_Witness ==
  \E c, d \in Callers, id \in Ids, i \in 1..MaxIndex :
    /\ ReleasedBy(d, id, i)
    /\ op[c].pc = "replied" /\ op[c].kind = "release"
    /\ op[c].id = id /\ op[c].index = i
    /\ op[c].evalResponse[1] = Num(1) /\ op[c].evalResponse[2] = Str("expired")
    /\ lockKey("lock", id) \notin DOMAIN hashes
    /\ Counter = i

(***************************************************************************)
(* C7.  A release of an id without record gives the caller exactly         *)
(* {success:true, result:"expired", index:0}.                              *)
(***************************************************************************)
C7_ExpiredResult ==
  \A c \in Callers :
    (op[c].pc = "done" /\ op[c].kind = "release" /\ op[c].result.result = Str("expired")) =>
      op[c].result = [id |-> op[c].result.id, success |-> TRUE,
                      result |-> Str("expired"), index |-> Num(0)]

(***************************************************************************)
(* C8.  The indices of successful acquires are strictly increasing in the  *)
(* order the store runs them, over all ids: a new index is greater than    *)
(* every index in a record, a reply or a result, and than the counter      *)
(* before the step; no two grants carry the same index.                    *)
(***************************************************************************)
\* the indices a state shows: of records, of replies under way, of results held
KnownIndexes ==
  {hashes[k].index : k \in DOMAIN hashes}
    \cup {op[c].evalResponse[2].num :
            c \in {d \in Callers : op[d].pc = "replied" /\ op[d].kind = "acquire"}}
    \cup {op[c].result.index.num :
            c \in {d \in Callers : op[d].pc = "done" /\ op[d].kind = "acquire"}}

C8_IndexIncreasing ==
  /\ [](\A c, d \in Callers, i \in 1..(MaxIndex + 1), id1, id2 \in Ids :
          (Granted(c, id1, i) /\ Granted(d, id2, i)) => c = d)
  /\ [](\A i \in KnownIndexes : i <= Counter)
  /\ [][\A c \in Callers :
          (AcquireRan(c) /\ op'[c].evalResponse[1] = Num(1)) =>
            /\ op'[c].evalResponse[2].num > Counter
            /\ \A i \in KnownIndexes : op'[c].evalResponse[2].num > i]_vars

\* a later acquisition, of another id and after the first lock is gone, got the greater index
C8_Witness ==
  \E c, d \in Callers, i \in 1..MaxIndex :
    /\ c # d
    /\ Granted(c, "R1", i) /\ Granted(d, "R2", i + 1)
    /\ lockKey("lock", "R1") \notin DOMAIN hashes

(***************************************************************************)
(* C9.  The counter starts at 0 and changes only in the step of a          *)
(* successful acquire, by +1: a refused acquire, a release, a renewal, the *)
(* expiry of a record and the delivery of results and messages leave it as *)
(* it is, and its key is never deleted.  (Hence its value is the number of *)
(* successful acquisitions.)                                               *)
(***************************************************************************)
C9_CounterFrame ==
  /\ Counter = 0
  /\ [][DOMAIN strings \subseteq DOMAIN strings']_vars
  /\ [][\/ strings' = strings
        \/ \E c \in Callers :
             /\ AcquireRan(c) /\ op'[c].evalResponse[1] = Num(1)
             /\ strings' = SETSTR(strings, counterOf(c), Counter + 1)]_vars
  /\ [][\A c \in Callers :
          (\/ AcquireRan(c) /\ op'[c].evalResponse[1] = Num(0)
           \/ ReleaseRan(c)
           \/ RenewRan(c)) => strings' = strings]_vars
  /\ [][Tick => strings' = strings]_vars

\* one acquisition so far; a renewal and a refused acquire have been answered since
C9_Witness ==
  \E c, d \in Callers :
    /\ c # d
    /\ Counter = 1
    /\ op[c].pc = "replied" /\ op[c].kind = "renew"
    /\ op[c].evalResponse[2] = Str("renewed")
    /\ op[d].pc = "replied" /\ Refused(d, RenewId)

(***************************************************************************)
(* C10.  A lock that is neither released nor renewed expires: its record   *)
(* counts down from the requested ttl and is removed by the store; an      *)
(* acquire of the id after that succeeds, with an index greater than the   *)
(* N of the expired lock, and N+1 when nothing was acquired in between.    *)
(***************************************************************************)
C10_ExpiryThenAcquire ==
  /\ [](\A k \in DOMAIN hashes : hashes[k].pttl \in 0..MaxTtl)
  /\ [][Tick => \A k \in DOMAIN hashes :
          IF hashes[k].pttl = 0
          THEN k \notin DOMAIN hashes'
          ELSE k \in DOMAIN hashes' /\ hashes'[k].pttl = hashes[k].pttl - 1]_vars
  /\ [][\A c, d \in Callers :
          (c # d /\ AcquireRan(c) /\ Acquired(d, op[c].id)
             /\ keyOf(c) \notin DOMAIN hashes) =>
            LET N == op[d].result.index.num
                index == op'[c].evalResponse[2].num
            IN /\ op'[c].evalResponse[1] = Num(1)
               /\ index > N
               /\ (Counter = N => index = N + 1)]_vars

\* the holder never released; its lock expired and the other caller got the next index
C10_Witness ==
  \E c, d \in Callers, id \in Ids, N \in 1..MaxIndex :
    /\ c # d
    /\ Acquired(d, id) /\ op[d].result.index = Num(N)
    /\ Granted(c, id, N + 1)

(***************************************************************************)
(* C11.  A renewal whose index equals the index of the existing record     *)
(* sets the remaining time of the record to the given ttl, leaves the      *)
(* index, the other keys, the counter and the channel as they are and      *)
(* replies {1, "renewed", index}; the caller gets {id, success:true,       *)
(* result:"renewed", index: the same index}, and a release with that       *)
(* handle, run while the record is the renewed one, deletes the record and *)
(* reports "released".                                                     *)
(***************************************************************************)
MatchingRenew(c) ==
  RenewRan(c) /\ keyOf(c) \in DOMAIN hashes /\ hashes[keyOf(c)].index = op[c].index

RenewedReply(index) == <<Num(1), Str("renewed"), Num(index)>>

C11_Renewed ==
  /\ [][\A c \in Callers : MatchingRenew(c) =>
          /\ hashes' = [hashes EXCEPT ![keyOf(c)].pttl = op[c].ttl]
          /\ strings' = strings /\ inbox' = inbox
          /\ op'[c].evalResponse = RenewedReply(op[c].index)
          /\ releaseScript(hashes', _namespace[lockOf[c]], keyOf(c),
                           op'[c].evalResponse[3].num).reply
               = <<Num(1), Str("released"), Num(op[c].index)>>]_vars
  /\ [][\A c \in Callers :
          (Returned(c, "renew") /\ op[c].evalResponse[2] = Str("renewed")) =>
            op'[c].result = [id |-> op[c].id, success |-> TRUE,
                             result |-> Str("renewed"), index |-> op[c].evalResponse[3]]]_vars
  /\ [][\A c, d \in Callers :
          (/\ ReleaseRan(c)
           /\ op[d].pc = "done" /\ op[d].kind = "renew" /\ op[d].result.success
           /\ op[d].result.id = op[c].id /\ op[d].result.index = Num(op[c].index)
           /\ keyOf(c) \in DOMAIN hashes /\ hashes[keyOf(c)].index = op[c].index) =>
            /\ op'[c].evalResponse = <<Num(1), Str("released"), Num(op[c].index)>>
            /\ keyOf(c) \notin DOMAIN hashes']_vars

\* a record in its last millisecond was renewed by its holder: it has the full ttl again
\* and the index it had; the other caller released it with the renewed handle
C11_Witness ==
  \E c, d \in Callers, i \in 1..MaxIndex :
    /\ c # d
    /\ op[d].pc = "done" /\ op[d].kind = "renew"
    /\ op[d].result = [id |-> RenewId, success |-> TRUE,
                       result |-> Str("renewed"), index |-> Num(i)]
    /\ op[c].pc = "replied" /\ op[c].kind = "release" /\ op[c].id = RenewId
    /\ op[c].index = i
    /\ op[c].evalResponse = <<Num(1), Str("released"), Num(i)>>

\* the renewal itself: the remaining time went from 0 to the ttl asked for
C11_Extended ==
  \E c \in Callers, i \in 1..MaxIndex :
    /\ op[c].pc = "replied" /\ op[c].kind = "renew"
    /\ op[c].evalResponse = RenewedReply(i)
    /\ keyOf(c) \in DOMAIN hashes
    /\ hashes[keyOf(c)] = [index |-> i, pttl |-> MaxTtl]

(***************************************************************************)
(* C12.  A renewal that finds no record of the id replies                  *)
(* {0, "missing", -1}, one that finds a record with another index replies  *)
(* {0, "conflict", -1}; both leave the keyspace (no record created, index  *)
(* and remaining time of the holder's record untouched), the counter and   *)
(* the channel as they are, and the caller gets success:false, index -1.   *)
(* No record ever has index -1, so a release with the returned handle on a *)
(* live record is a conflict and leaves the record in place.               *)
(***************************************************************************)
RefusedRenew(c) == RenewRan(c) /\ ~MatchingRenew(c)

C12_RenewRefused ==
  /\ [][\A c \in Callers : RefusedRenew(c) =>
          /\ op'[c].evalResponse =
               <<Num(0),
                 Str(IF keyOf(c) \in DOMAIN hashes THEN "conflict" ELSE "missing"),
                 Num(-1)>>
          /\ hashes' = hashes /\ strings' = strings /\ inbox' = inbox]_vars
  /\ [][\A c \in Callers :
          (Returned(c, "renew") /\ op[c].evalResponse[1] = Num(0)) =>
            op'[c].result = [id |-> op[c].id, success |-> FALSE,
                             result |-> op[c].evalResponse[2], index |-> Num(-1)]]_vars
  /\ [][\A c \in Callers :
          (ReleaseRan(c) /\ op[c].index = -1 /\ keyOf(c) \in DOMAIN hashes) =>
            /\ op'[c].evalResponse[1] = Num(0)
            /\ hashes' = hashes]_vars

\* a renewal with a wrong index was refused as a conflict; the release with the handle
\* it returned (index -1) was refused too and the holder's record is still there
C12_Witness ==
  \E c, d \in Callers, i \in 1..MaxIndex :
    /\ c # d
    /\ op[d].pc = "done" /\ op[d].kind = "renew"
    /\ op[d].result = [id |-> RenewId, success |-> FALSE,
                       result |-> Str("conflict"), index |-> Num(-1)]
    /\ op[c].pc = "replied" /\ op[c].kind = "release" /\ op[c].id = RenewId
    /\ op[c].index = -1
    /\ op[c].evalResponse = ConflictReply(i)
    /\ keyOf(c) \in DOMAIN hashes /\ hashes[keyOf(c)].index = i

\* a renewal of an id without record: "missing", and still no record
C12_Missing ==
  \E c \in Callers :
    /\ op[c].pc = "replied" /\ op[c].kind = "renew"
    /\ op[c].evalResponse = <<Num(0), Str("missing"), Num(-1)>>
    /\ keyOf(c) \notin DOMAIN hashes

(***************************************************************************)
(* Waiting for a lock: a user of L1 waits for an id that a user of L2      *)
(* acquires and releases.                                                  *)
(***************************************************************************)
WaitId == "R1"
Waiter == "w1"
Holder == "c2"
NextWait ==
  \/ \E c \in {Waiter}, waitTtl \in WaitTtls :
       CounterHasRoom(lockOf[c]) /\ waitAcquireLock(c, WaitId, MaxTtl, waitTtl)
  \/ \E c \in {Waiter} : waitAcquireRun(c)
  \/ \E c \in {Waiter} : waitAcquireCallback(c)
  \/ \E c \in {Waiter} : ttlTimerFire(c)
  \/ \E c \in {Waiter} : expireLockTimerFire(c)
  \/ \E c \in {Holder}, ttl \in Ttls : CounterHasRoom(lockOf[c]) /\ acquireLock(c, WaitId, ttl)
  \/ \E c \in {Holder} : acquireRun(c)
  \/ \E c \in {Holder} : acquireReturn(c)
  \/ \E c \in {Holder}, index \in 1..MaxIndex :
       \* the holder releases what it has acquired
       /\ Acquired(c, WaitId) /\ op[c].result.index = Num(index)
       /\ releaseLock(c, WaitId, index)
  \/ \E c \in {Holder} : releaseRun(c)
  \/ \E c \in {Holder} : releaseReturn(c)
  \/ Tick
  \/ \E l \in Locks : onMessage(l)

SpecWait == Init /\ [][NextWait]_vars

\* ... and renews
NextWaitRenew ==
  \/ NextWait
  \/ \E c \in {Holder}, index \in {-1} \cup (1..MaxIndex), ttl \in Ttls :
       \* the holder renews with the handle of its last acquireLock, granted or refused
       /\ op[c].pc = "done" /\ op[c].kind = "acquire" /\ op[c].result.index = Num(index)
       /\ renewLock(c, WaitId, index, ttl)
  \/ \E c \in {Holder} : renewRun(c)
  \/ \E c \in {Holder} : renewReturn(c)

SpecWaitRenew == Init /\ [][NextWaitRenew]_vars

\* caller c is waiting: its listener and its ttlTimer are set
Waiting(c) ==
  /\ op[c].kind = "waitAcquire" /\ op[c].pc = "waiting"
  /\ Listener(c) \in _subscribers[lockOf[c]]
\* a step of a renewLock call of c: the call, the script, the return
RenewStep(c) ==
  \/ op'[c].kind = "renew" /\ op'[c].pc \in {"run", "rejected"} /\ op'[c] # op[c]
  \/ RenewRan(c)
  \/ Returned(c, "renew")

(***************************************************************************)
(* C13.  No step of a renewal, whatever its outcome, puts a message on the *)
(* release channel: the inbox of every Lock instance, the registered       *)
(* listeners and the state of every waitAcquireLock call (the waiter stays *)
(* waiting, its timers untouched) are the same after the step.             *)
(***************************************************************************)
C13_RenewSilent ==
  [][\A c \in Callers : RenewStep(c) =>
       /\ inbox' = inbox
       /\ _subscribers' = _subscribers
       /\ \A w \in Waiters : op'[w] = op[w]]_vars

\* the holder renewed its lock while the waiter was waiting for it: nothing is in any
\* inbox and the waiter still waits
C13_Witness ==
  /\ Waiting(Waiter) /\ op[Waiter].id = WaitId
  /\ op[Holder].pc = "replied" /\ op[Holder].kind = "renew"
  /\ op[Holder].evalResponse[2] = Str("renewed")
  /\ \A l \in Locks : inbox[l] = <<>>

(***************************************************************************)
(* One hand-over: the holder acquires the id once and releases it or lets  *)
(* it expire; the waiter calls waitAcquireLock once, while the id is held. *)
(* In the fair version the store answers, time passes and the process runs *)
(* the callbacks that are due.                                             *)
(***************************************************************************)
NextHandover ==
  \/ \E ttl \in Ttls :
       op[Holder].pc = "idle" /\ CounterHasRoom(lockOf[Holder]) /\ acquireLock(Holder, WaitId, ttl)
  \/ acquireRun(Holder)
  \/ acquireReturn(Holder)
  \/ \E index \in 1..MaxIndex :
       /\ Acquired(Holder, WaitId) /\ op[Holder].result.index = Num(index)
       /\ releaseLock(Holder, WaitId, index)
  \/ releaseRun(Holder)
  \/ releaseReturn(Holder)
  \/ \E waitTtl \in WaitTtls :
       /\ op[Waiter].pc = "idle"
       /\ lockKey(_namespace[lockOf[Waiter]], WaitId) \in DOMAIN hashes
       /\ CounterHasRoom(lockOf[Waiter]) /\ waitAcquireLock(Waiter, WaitId, MaxTtl, waitTtl)
  \/ waitAcquireRun(Waiter)
  \/ waitAcquireCallback(Waiter)
  \/ ttlTimerFire(Waiter)
  \/ expireLockTimerFire(Waiter)
  \/ Tick
  \/ \E l \in Locks : onMessage(l)

SpecHandover == Init /\ [][NextHandover]_vars

FairHandover ==
  /\ WF_vars(waitAcquireRun(Waiter))
  /\ WF_vars(waitAcquireCallback(Waiter))
  /\ WF_vars(ttlTimerFire(Waiter))
  /\ WF_vars(expireLockTimerFire(Waiter))
  /\ WF_vars(Tick)
  /\ \A l \in Locks : WF_vars(onMessage(l))

SpecHandoverFair == SpecHandover /\ FairHandover

\* the store runs an attempt of the waitAcquireLock call of c in this step
WaitRan(c) == op[c].pc = "run" /\ op[c].kind = "waitAcquire" /\ op'[c].pc = "replied"
\* the promise of the waitAcquireLock call of c resolves in this step
WaitReturned(c) == op[c].pc = "replied" /\ op[c].kind = "waitAcquire" /\ op'[c].pc = "done"
\* the waitAcquireLock call of c has returned
WaitDone(c) == op[c].pc = "done" /\ op[c].kind = "waitAcquire"
\* the holder's release was executed: "released"
HolderReleased ==
  /\ op[Holder].kind = "release"
  /\ \/ op[Holder].pc = "replied" /\ op[Holder].evalResponse[2] = Str("released")
     \/ op[Holder].pc = "done" /\ op[Holder].result.result = Str("released")

(***************************************************************************)
(* C14.  A waitAcquireLock call for a held id whose attempt is refused     *)
(* does not return success before the holder's record is gone: an attempt  *)
(* succeeds only when the store has no record of the id.  Every attempt    *)
(* after the first one has initial = false.  When the record is released   *)
(* (or expires) while the call is registered as a waiter or while a retry  *)
(* is on its way to the store, and nobody else acquires the id, the call   *)
(* returns success:true with immediate:false.                              *)
(***************************************************************************)
Retrying(c) ==
  /\ op[c].kind = "waitAcquire"
  /\ op[c].pc = "waiting" \/ (op[c].pc = "run" /\ ~op[c].initial)

C14_WaitThenAcquire ==
  /\ [][WaitRan(Waiter) =>
          (truthy(op'[Waiter].evalResponse[1]) <=> keyOf(Waiter) \notin DOMAIN hashes)]_vars
  /\ [][(op[Waiter].pc = "waiting" /\ op'[Waiter].pc = "run") =>
          ~op'[Waiter].initial]_vars
  /\ (Retrying(Waiter) /\ keyOf(Waiter) \notin DOMAIN hashes)
       ~> (WaitDone(Waiter) /\ op[Waiter].result.success
             /\ ~op[Waiter].result.immediate)

\* the waiter was refused, the holder released, the waiter got the lock: not immediate
C14_Witness ==
  /\ HolderReleased
  /\ WaitDone(Waiter) /\ op[Waiter].result.success /\ ~op[Waiter].result.immediate
  /\ op[Waiter].result.index = Num(2)

\* the claim as written: the id is held at the call (every call of this specification)
\* and released while the deadline timer still runs, so the call returns success:true
\* and immediate:false
C14_ReleasedInTime ==
  []((HolderReleased /\ op[Waiter].kind = "waitAcquire" /\ op[Waiter].expireLockTimer > 0)
       => [](WaitDone(Waiter) =>
               op[Waiter].result.success /\ ~op[Waiter].result.immediate))

(***************************************************************************)
(* C15.  A waitAcquireLock call returns success:false only from a callback *)
(* that finds expired set.  expired is set by the callback of              *)
(* expireLockTimer only, which runs when the timer has counted down to 0;  *)
(* the timer is set to waitTtl by the call and until it runs or is cleared *)
(* it changes only by one millisecond, as a millisecond passes.  So the    *)
(* refusal is returned at least waitTtl after the call.                    *)
(***************************************************************************)
C15_NoEarlyRefusal ==
  /\ [][\A c \in Waiters : (WaitReturned(c) /\ ~op'[c].result.success) =>
          op[c].expired /\ op[c].expireLockTimer = NoTimer]_vars
  /\ [][\A c \in Waiters : (~op[c].expired /\ op'[c].expired) =>
          op[c].expireLockTimer = 0]_vars
  /\ [][\A c \in Waiters :
          (op[c].expireLockTimer > 0 /\ op'[c].expireLockTimer # op[c].expireLockTimer) =>
            \/ op'[c].expireLockTimer = op[c].expireLockTimer - 1
                 /\ hashes' = Expire(hashes)
            \/ WaitReturned(c) /\ op'[c].result.success]_vars

\* the id stayed held beyond the deadline: the call returned success:false
C15_Witness ==
  /\ WaitDone(Waiter) /\ ~op[Waiter].result.success
  /\ keyOf(Holder) \in DOMAIN hashes /\ Granted(Holder, WaitId, hashes[keyOf(Holder)].index)

(***************************************************************************)
(* C16.  A waitAcquireLock call with a deadline returns.  Its timer runs   *)
(* down and its callback sets expired; from then on the call is never      *)
(* registered as a waiter again: if an attempt is in flight that attempt   *)
(* is the last one, otherwise one last attempt is made, and the callback   *)
(* of that attempt returns whatever the store answered.  So after the      *)
(* deadline the store runs at most one more attempt of the call.           *)
(***************************************************************************)
\* the waitAcquireLock call of c has not returned
WaitPending(c) ==
  op[c].kind = "waitAcquire" /\ op[c].pc \in {"run", "replied", "waiting"}
HasDeadline(c) == op[c].expireLockTimer # NoTimer \/ op[c].expired

C16_Terminates ==
  /\ (WaitPending(Waiter) /\ HasDeadline(Waiter)) ~> WaitDone(Waiter)
  /\ [](op[Waiter].expired =>
          /\ op[Waiter].pc \in {"run", "replied"}
          /\ op[Waiter].ttlTimer = NoTimer
          /\ Listener(Waiter) \notin _subscribers[lockOf[Waiter]])
  /\ [][op[Waiter].expireLockTimer = 0 /\ op'[Waiter].expireLockTimer = NoTimer =>
          \/ op'[Waiter].expired /\ op'[Waiter].pc \in {"run", "replied"}
          \/ WaitReturned(Waiter)]_vars
  /\ [][op[Waiter].expired /\ op'[Waiter] # op[Waiter] =>
          \/ WaitRan(Waiter) /\ op'[Waiter].expired
          \/ WaitReturned(Waiter)]_vars

\* the deadline passed while the call was registered as a waiter; the one attempt made
\* after it was refused and the call has returned
C16_Witness ==
  /\ WaitDone(Waiter) /\ ~op[Waiter].result.success /\ ~op[Waiter].result.immediate
  /\ keyOf(Holder) \in DOMAIN hashes

NextLostMessage ==
  \/ \E ttl \in Ttls :
       op[Holder].pc = "idle" /\ CounterHasRoom(lockOf[Holder]) /\ acquireLock(Holder, WaitId, ttl)
  \/ acquireRun(Holder)
  \/ acquireReturn(Holder)
  \/ \E index \in 1..MaxIndex :
       /\ Acquired(Holder, WaitId) /\ op[Holder].result.index = Num(index)
       /\ releaseLock(Holder, WaitId, index)
  \/ releaseRun(Holder)
  \/ releaseReturn(Holder)
  \/ \E waitTtl \in WaitTtls :
       /\ op[Waiter].pc = "idle"
       /\ lockKey(_namespace[lockOf[Waiter]], WaitId) \in DOMAIN hashes
       /\ CounterHasRoom(lockOf[Waiter]) /\ waitAcquireLock(Waiter, WaitId, MaxTtl, waitTtl)
  \/ waitAcquireRun(Waiter)
  \/ waitAcquireCallback(Waiter)
  \/ ttlTimerFire(Waiter)
  \/ expireLockTimerFire(Waiter)
  \/ Tick

FairLostMessage ==
  /\ WF_vars(waitAcquireRun(Waiter))
  /\ WF_vars(waitAcquireCallback(Waiter))
  /\ WF_vars(ttlTimerFire(Waiter))
  /\ WF_vars(expireLockTimerFire(Waiter))
  /\ WF_vars(Tick)

SpecLostMessage == Init /\ [][NextLostMessage]_vars /\ FairLostMessage

(***************************************************************************)
(* C18.  A call registered as a waiter has its ttlTimer set, to no less    *)
(* than MinRetryDelay; when the timer is due its callback makes the next   *)
(* attempt, message or no message.  So, without any message ever being     *)
(* delivered: a registered call returns; and when the record is gone       *)
(* (released or expired) and nobody else acquires the id, it returns with  *)
(* the lock.                                                               *)
(***************************************************************************)
C18_FallbackTimer ==
  /\ [](Waiting(Waiter) => op[Waiter].ttlTimer \in 0..Max(MaxTtl, MinRetryDelay))
  /\ [][(op[Waiter].pc = "waiting" /\ op'[Waiter].pc = "run") =>
          /\ op[Waiter].ttlTimer = 0 \/ op[Waiter].expireLockTimer = 0
          /\ inbox' = inbox]_vars
  /\ Waiting(Waiter) ~> WaitDone(Waiter)
  /\ (Waiting(Waiter) /\ keyOf(Waiter) \notin DOMAIN hashes)
       ~> (WaitDone(Waiter) /\ op[Waiter].result.success)

\* the holder released, the message is still undelivered, the waiter has no deadline:
\* the attempt made by its ttlTimer got the lock
C18_Witness ==
  /\ HolderReleased
  /\ inbox[lockOf[Waiter]] # <<>>
  /\ op[Waiter].kind = "waitAcquire" /\ op[Waiter].pc = "replied"
  /\ ~op[Waiter].initial /\ ~op[Waiter].expired
  /\ op[Waiter].expireLockTimer = NoTimer
  /\ op[Waiter].evalResponse[1] = Num(1)

(***************************************************************************)
(* Closing: L1 is used by a caller of acquireLock, releaseLock and         *)
(* renewLock and by a caller of waitAcquireLock, all for one id, and is    *)
(* closed.  Handles are those of the last acquireLock while L1 is open.    *)
(***************************************************************************)
Closed == "L1"
Closing == _closeCompletion[Closed] # "null"
OwnHandle(c, index) ==
  \/ op[c].pc = "done" /\ op[c].kind = "acquire" /\ op[c].result.index = Num(index)
  \/ Closing

NextClosing ==
  \/ CounterHasRoom(lockOf["c1"]) /\ acquireLock("c1", WaitId, MaxTtl)
  \/ acquireRun("c1")
  \/ acquireReturn("c1")
  \/ \E index \in 1..MaxIndex : OwnHandle("c1", index) /\ releaseLock("c1", WaitId, index)
  \/ releaseRun("c1")
  \/ releaseReturn("c1")
  \/ \E index \in 1..MaxIndex :
       OwnHandle("c1", index) /\ renewLock("c1", WaitId, index, MaxTtl)
  \/ renewRun("c1")
  \/ renewReturn("c1")
  \/ \E waitTtl \in 0..MaxWait :
       CounterHasRoom(lockOf[Waiter]) /\ waitAcquireLock(Waiter, WaitId, MaxTtl, waitTtl)
  \/ waitAcquireRun(Waiter)
  \/ waitAcquireCallback(Waiter)
  \/ ttlTimerFire(Waiter)
  \/ expireLockTimerFire(Waiter)
  \/ Tick
  \/ \E l \in Locks : onMessage(l)
  \/ close(Closed, "default")
  \/ _closeQuit(Closed)

SpecClosing == Init /\ [][NextClosing]_vars

(***************************************************************************)
(* C19.  A call of acquireLock, releaseLock, renewLock or waitAcquireLock  *)
(* on an instance whose close() has been called (whether or not it has     *)
(* completed) is rejected with the "closing" error in the step of the      *)
(* call: the store, the inboxes, the listeners and _activeOperations are   *)
(* unchanged, no timer is set.  On an instance that is not closing the     *)
(* call is started and registered.                                         *)
(***************************************************************************)
\* user c makes a call in this step
Called(c) == Ready(c) /\ op'[c] # op[c]

C19_ClosingRejects ==
  [][\A c \in Users : Called(c) =>
       IF _closeCompletion[lockOf[c]] # "null"
       THEN /\ op'[c] = Rejected(op'[c].kind)
            /\ op'[c].kind \in {"acquire", "release", "renew", "waitAcquire"}
            /\ op'[c].result.error = ClosingError
            /\ op'[c].ttlTimer = NoTimer /\ op'[c].expireLockTimer = NoTimer
            /\ hashes' = hashes /\ strings' = strings /\ inbox' = inbox
            /\ _subscribers' = _subscribers
            /\ _activeOperations' = _activeOperations
       ELSE /\ op'[c].pc = "run"
            /\ c \in _activeOperations'[lockOf[c]]]_vars

\* close() has completed; a call of each user was rejected after that
C19_Witness ==
  /\ _closeCompletion[Closed] = "resolved"
  /\ op[Waiter] = Rejected("waitAcquire")
  /\ op["c1"] = Rejected("renew")
  /\ _activeOperations[Closed] = {}

\* ... and while close() waits for a pending waitAcquireLock
C19_WhileDraining ==
  /\ _closeCompletion[Closed] = "waitReady"
  /\ Waiting(Waiter)
  /\ op["c1"] = Rejected("release")

(***************************************************************************)
(* Draining: two callers of waitAcquireLock use L1 for the same id, each   *)
(* for one call, and L1 is closed (src/index.d.ts 147-158).                *)
(***************************************************************************)
NextDrain ==
  \/ \E c \in Waiters, waitTtl \in 0..MaxWait :
       op[c].pc = "idle" /\ CounterHasRoom(lockOf[c])
       /\ waitAcquireLock(c, WaitId, MaxTtl, waitTtl)
  \/ \E c \in Waiters : waitAcquireRun(c)
  \/ \E c \in Waiters : waitAcquireCallback(c)
  \/ \E c \in Waiters : ttlTimerFire(c)
  \/ \E c \in Waiters : expireLockTimerFire(c)
  \/ Tick
  \/ \E arg \in ClosePrimaryArgs : close(Closed, arg)
  \/ _closeQuit(Closed)

SpecDrain == Init /\ [][NextDrain]_vars

(***************************************************************************)
(* C20.  A call that has not returned is in _activeOperations.  While      *)
(* _activeOperations of an instance is not empty its close() has sent no   *)
(* QUIT and has not resolved, and both connections are open; close()       *)
(* called with operations pending waits, and goes on to QUIT in the step   *)
(* in which the last of them returns.  The store runs a script of an       *)
(* instance only while its command connection is open and no QUIT has been *)
(* sent.                                                                   *)
(***************************************************************************)
Pending(c) == op[c].pc \in {"run", "replied", "waiting"}
\* the store runs a script of user c in this step
ScriptRan(c) == op[c].pc = "run" /\ op'[c].pc = "replied"

C20_CloseDrains ==
  /\ [](\A c \in Users : Pending(c) => c \in _activeOperations[lockOf[c]])
  /\ [](\A l \in Locks : _activeOperations[l] # {} =>
          /\ _closeCompletion[l] \in {"null", "waitReady"}
          /\ _redisConnection[l] = "open" /\ _redisSubscriber[l] = "subscribed")
  /\ [][\A l \in Locks :
          (_closeCompletion[l] = "null" /\ _closeCompletion'[l] # "null") =>
            _closeCompletion'[l] =
              IF _activeOperations[l] # {} THEN "waitReady" ELSE "quitting"]_vars
  /\ [][\A l \in Locks :
          (_closeCompletion[l] = "waitReady" /\ _closeCompletion'[l] # "waitReady") =>
            /\ _closeCompletion'[l] = "quitting"
            /\ _activeOperations[l] # {} /\ _activeOperations'[l] = {}]_vars
  /\ [][\A c \in Users : ScriptRan(c) =>
          /\ _redisConnection[lockOf[c]] = "open"
          /\ _closeCompletion[lockOf[c]] \in {"null", "waitReady"}]_vars

\* close() was called while both waitAcquireLock calls were pending, one of them
\* registered as a waiter for the lock of the other: it has not resolved
C20_Witness ==
  /\ _closeCompletion[Closed] = "waitReady"
  /\ _activeOperations[Closed] = Waiters
  /\ \E c, d \in Waiters :
       /\ Waiting(c)
       /\ op[d].pc = "replied" /\ op[d].evalResponse[1] = Num(1)

\* ... and it has resolved after both have returned with the lock
C20_Drained ==
  /\ _closeCompletion[Closed] = "resolved"
  /\ _redisSubscriber[Closed] = "closed"
  /\ \A c \in Waiters : WaitDone(c) /\ op[c].result.success

(***************************************************************************)
(* C21.  A waitAcquireLock call that is pending while its instance is      *)
(* closing goes on as before: no step turns it into a rejected call, its   *)
(* retries go to the store (tryAcquire calls _acquireLock, which has no    *)
(* closing check) and are answered by the script, and it returns either    *)
(* with the lock or, expired being set, with the refusal.  While it is     *)
(* pending close() has sent no QUIT and has not resolved, and both         *)
(* connections are open.                                                   *)
(***************************************************************************)
C21_PendingWaitSurvivesClose ==
  /\ [][(Closing /\ WaitPending(Waiter) /\ op'[Waiter] # op[Waiter]) =>
          /\ op'[Waiter].kind = "waitAcquire"
          /\ op'[Waiter].pc \in {"run", "replied", "waiting", "done"}
          /\ op'[Waiter].pc = "done" =>
               /\ WaitReturned(Waiter)
               /\ op'[Waiter].result.success \/ op[Waiter].expired]_vars
  /\ [][(Closing /\ op[Waiter].pc = "waiting" /\ op'[Waiter].pc # "waiting") =>
          op'[Waiter].pc = "run"]_vars
  /\ [][(Closing /\ WaitRan(Waiter)) =>
          /\ op'[Waiter].evalResponse =
               acquireScript(hashes, strings, keyOf(Waiter), counterOf(Waiter),
                             op[Waiter].ttl).reply
          /\ truthy(op'[Waiter].evalResponse[1]) <=> keyOf(Waiter) \notin DOMAIN hashes]_vars
  /\ [](WaitPending(Waiter) =>
          /\ _closeCompletion[Closed] \in {"null", "waitReady"}
          /\ _redisConnection[Closed] = "open"
          /\ _redisSubscriber[Closed] = "subscribed")

\* close() waits; a call of c1 was rejected, and a retry of the waiter has been granted
\* the lock by the store
C21_Witness ==
  /\ _closeCompletion[Closed] = "waitReady"
  /\ op["c1"].pc = "rejected"
  /\ op[Waiter].kind = "waitAcquire" /\ op[Waiter].pc = "replied"
  /\ ~op[Waiter].initial
  /\ op[Waiter].evalResponse[1] = Num(1)

\* ... and close() has resolved after the waiter returned the refusal of its deadline
C21_Refused ==
  /\ _closeCompletion[Closed] = "resolved"
  /\ op["c1"].pc = "rejected"
  /\ WaitDone(Waiter) /\ ~op[Waiter].result.success

(***************************************************************************)
(* Closing again: both Lock instances are used for acquisitions and closed *)
(* with every choice of closePrimary, up to MaxCloses times each.  No time *)
(* passes: what is acquired stays held.                                    *)
(***************************************************************************)
NextClose ==
  \/ \E c \in Callers : CounterHasRoom(lockOf[c]) /\ acquireLock(c, WaitId, MaxTtl)
  \/ \E c \in Callers : acquireRun(c)
  \/ \E c \in Callers : acquireReturn(c)
  \/ \E l \in {"L1", "L2"}, arg \in ClosePrimaryArgs : close(l, arg)
  \/ \E l \in {"L1", "L2"} : _closeQuit(l)

SpecClose == Init /\ [][NextClose]_vars

\* close() is called on l in this step
CloseCalled(l) == closeCalls'[l].n = closeCalls[l].n + 1
\* ... on an instance that is closing already
CloseRepeated(l) == CloseCalled(l) /\ _closeCompletion[l] # "null"
\* ... with the choice, explicit or by default, that the first call made
SameChoice(l) == boolStr(closePrimaryOf(l, closeCalls'[l].arg)) = _closingPrimary[l]
\* the step changes nothing but the record of the call
CloseFrame(l) ==
  /\ _closeCompletion' = _closeCompletion
  /\ _closingPrimary' = _closingPrimary
  /\ _readyToClose' = _readyToClose
  /\ _redisConnection' = _redisConnection
  /\ _redisSubscriber' = _redisSubscriber
  /\ _activeOperations' = _activeOperations
  /\ op' = op /\ hashes' = hashes /\ strings' = strings /\ inbox' = inbox

(***************************************************************************)
(* C22.  A close() on an instance that is closing or closed, with the      *)
(* effective closePrimary of the first call, returns this._closeCompletion *)
(* (the promise of the first call, pending or resolved) and changes        *)
(* nothing: _close is not started again.  QUIT is sent once: by the step   *)
(* that takes _close from "quitting" to "resolved", on a subscriber that   *)
(* is still subscribed; a closed connection stays closed and a resolved    *)
(* close stays resolved.                                                   *)
(***************************************************************************)
C22_CloseIdempotent ==
  /\ [][\A l \in Locks : (CloseRepeated(l) /\ SameChoice(l)) =>
          /\ closeCalls'[l].outcome = "_closeCompletion"
          /\ CloseFrame(l)]_vars
  /\ [][\A l \in Locks :
          (_redisSubscriber'[l] # _redisSubscriber[l]
             \/ _redisConnection'[l] # _redisConnection[l]) =>
            /\ _closeCompletion[l] = "quitting" /\ _closeCompletion'[l] = "resolved"
            /\ _redisSubscriber[l] = "subscribed" /\ _redisConnection[l] = "open"]_vars
  /\ [][\A l \in Locks :
          _closeCompletion[l] = "resolved" => _closeCompletion'[l] = "resolved"]_vars

\* L1 was closed twice, the second time by default, while an acquisition was pending:
\* the caller got the pending promise again
C22_Witness ==
  /\ closeCalls["L1"] = [n |-> 2, arg |-> "default", outcome |-> "_closeCompletion"]
  /\ _closeCompletion["L1"] = "waitReady"
  /\ op["c1"].pc = "replied"

\* ... and L2 explicitly, after the first close had resolved
C22_Completed ==
  /\ closeCalls["L2"] = [n |-> 2, arg |-> "true", outcome |-> "_closeCompletion"]
  /\ _closeCompletion["L2"] = "resolved"
  /\ _redisConnection["L2"] = "closed"

(***************************************************************************)
(* C23.  A close() on an instance that is closing or closed, with an       *)
(* effective closePrimary other than that of the first call, throws        *)
(* "already closing and will [not ]close primary", an error that is        *)
(* neither the promise nor the "closing" error of the operations, and      *)
(* changes nothing.  _closingPrimary, once set, keeps the value of the     *)
(* first call, and the quit step closes the command connection exactly     *)
(* when that value is true.                                                *)
(***************************************************************************)
C23_CloseConflict ==
  /\ [][\A l \in Locks : (CloseRepeated(l) /\ ~SameChoice(l)) =>
          /\ closeCalls'[l].outcome =
               (IF _closingPrimary[l] = "true"
                THEN "already closing and will close primary"
                ELSE "already closing and will not close primary")
          /\ closeCalls'[l].outcome \notin {"_closeCompletion", ClosingError}
          /\ CloseFrame(l)]_vars
  /\ [][\A l \in Locks :
          _closingPrimary[l] # "null" => _closingPrimary'[l] = _closingPrimary[l]]_vars
  /\ [][\A l \in Locks :
          (_closeCompletion[l] = "null" /\ CloseCalled(l)) =>
            _closingPrimary'[l] = boolStr(closePrimaryOf(l, closeCalls'[l].arg))]_vars
  /\ [][\A l \in Locks :
          (_closeCompletion[l] = "quitting" /\ _closeCompletion'[l] = "resolved") =>
            _redisConnection'[l] =
              IF _closingPrimary[l] = "true" THEN "closed" ELSE "open"]_vars

\* L2 was closed by default, then with closePrimary true: the second call threw, and the
\* close resolved with the command connection open, as the first call had decided
C23_Witness ==
  /\ closeCalls["L2"] = [n |-> 2, arg |-> "true",
                         outcome |-> "already closing and will not close primary"]
  /\ _closingPrimary["L2"] = "false"
  /\ _closeCompletion["L2"] = "resolved"
  /\ _redisConnection["L2"] = "open" /\ _redisSubscriber["L2"] = "closed"

\* ... and L1 by default, then with closePrimary false, while an acquisition was pending
C23_Pending ==
  /\ closeCalls["L1"] = [n |-> 2, arg |-> "false",
                         outcome |-> "already closing and will close primary"]
  /\ _closingPrimary["L1"] = "true"
  /\ _closeCompletion["L1"] = "waitReady"

(***************************************************************************)
(* C24.  The first close() fixes the choice: closePrimary as passed, or    *)
(* _primaryIsNovel when nothing is passed.  When close() has resolved the  *)
(* subscription connection is closed, and the command connection is closed *)
(* exactly when that choice is true; before that both are open.  So after  *)
(* a default close the connection of L1 (made by the constructor) is       *)
(* closed and that of L2 (handed to the constructor) is open, after        *)
(* closePrimary true both are closed, and after closePrimary false both    *)
(* are open, that of L1 too.                                               *)
(***************************************************************************)
C24_CloseConnections ==
  /\ [][\A l \in Locks :
          (_closeCompletion[l] = "null" /\ CloseCalled(l)) =>
            _closingPrimary'[l] =
              CASE closeCalls'[l].arg = "true" -> "true"
                [] closeCalls'[l].arg = "false" -> "false"
                [] OTHER -> (IF l = "L1" THEN "true" ELSE "false")]_vars
  /\ [](\A l \in Locks :
          IF _closeCompletion[l] = "resolved"
          THEN /\ _redisSubscriber[l] = "closed"
               /\ _redisConnection[l] = "closed" <=> _closingPrimary[l] = "true"
          ELSE _redisSubscriber[l] = "subscribed" /\ _redisConnection[l] = "open")

\* the claim as written: the command connection is closed if and only if the instance
\* made it or the caller passed closePrimary true
C24_ClosePrimaryIff ==
  \A l \in Locks :
    _closeCompletion[l] = "resolved" =>
      /\ _redisSubscriber[l] = "closed"
      /\ _redisConnection[l] = "closed" <=>
           (_primaryIsNovel[l] \/ _closingPrimary[l] = "true")

\* a default close of L2 has resolved: its subscriber is closed, the connection it was
\* given is open
C24_Witness ==
  /\ closeCalls["L2"] = [n |-> 1, arg |-> "default", outcome |-> "_closeCompletion"]
  /\ _closeCompletion["L2"] = "resolved"
  /\ _redisSubscriber["L2"] = "closed" /\ _redisConnection["L2"] = "open"

\* ... and closes of L1 with closePrimary false and of L2 with closePrimary true
C24_Explicit ==
  /\ closeCalls["L1"] = [n |-> 1, arg |-> "false", outcome |-> "_closeCompletion"]
  /\ closeCalls["L2"] = [n |-> 1, arg |-> "true", outcome |-> "_closeCompletion"]
  /\ _closeCompletion["L1"] = "resolved" /\ _closeCompletion["L2"] = "resolved"
  /\ _redisConnection["L1"] = "open" /\ _redisConnection["L2"] = "closed"

(***************************************************************************)
(* Commands that fail: the hand-over with a store that may fail any        *)
(* command of the holder and of the waiter.  Each of the two makes its     *)
(* calls once: the holder acquires and releases, the waiter waits.         *)
(***************************************************************************)
NextTransport ==
  \/ \E ttl \in Ttls :
       op[Holder].pc = "idle" /\ CounterHasRoom(lockOf[Holder]) /\ acquireLock(Holder, WaitId, ttl)
  \/ acquireRun(Holder)
  \/ acquireReturn(Holder)
  \/ \E index \in 1..MaxIndex :
       /\ Acquired(Holder, WaitId) /\ op[Holder].result.index = Num(index)
       /\ releaseLock(Holder, WaitId, index)
  \/ releaseRun(Holder)
  \/ releaseReturn(Holder)
  \/ \E waitTtl \in WaitTtls :
       op[Waiter].pc = "idle" /\ CounterHasRoom(lockOf[Waiter])
       /\ waitAcquireLock(Waiter, WaitId, MaxTtl, waitTtl)
  \/ waitAcquireRun(Waiter)
  \/ waitAcquireCallback(Waiter)
  \/ ttlTimerFire(Waiter)
  \/ expireLockTimerFire(Waiter)
  \/ \E c \in {Holder, Waiter}, err \in TransportErrors, executed \in BOOLEAN :
       scriptFail(c, err, executed)
  \/ Tick
  \/ \E l \in Locks : onMessage(l)

SpecTransport == Init /\ [][NextTransport]_vars

\* the command of the call of c has failed; its error has not been handled yet
CommandFailed(c) == op[c].pc = "replied" /\ op[c].err # NoError
\* the call of c has been rejected with a transport error
CallFailed(c) == op[c].pc = "rejected" /\ op[c].result.error \in TransportErrors

(***************************************************************************)
(* C25.  When a command of a call fails, the callback of the command       *)
(* rejects the promise of the call with the error of the command and ends  *)
(* the operation; that step leaves the store and the inboxes as they are.  *)
(* Until then the call makes no attempt (its deadline timer may run down   *)
(* and set expired).  For waitAcquireLock this holds for the first attempt *)
(* and for every retry: after the rejection neither timer is set, the call *)
(* is not registered as a waiter, and it does nothing more.                *)
(***************************************************************************)
C25_TransportError ==
  /\ [][\A c \in {Holder, Waiter} : (CommandFailed(c) /\ op'[c].pc # "replied") =>
          /\ op'[c] = Failed(op[c].kind, op[c].err)
          /\ c \notin _activeOperations'[lockOf[c]]
          /\ hashes' = hashes /\ strings' = strings /\ inbox' = inbox
          /\ _subscribers' = _subscribers]_vars
  /\ [](\A c \in {Holder, Waiter} : CallFailed(c) =>
          /\ op[c].ttlTimer = NoTimer /\ op[c].expireLockTimer = NoTimer
          /\ \A p \in _subscribers[lockOf[c]] : p[2] # c
          /\ c \notin _activeOperations[lockOf[c]])
  /\ [][\A c \in {Holder, Waiter} : CallFailed(c) => op'[c] = op[c]]_vars
  /\ [](\A c \in {Holder, Waiter} : CommandFailed(c) =>
          ~TimerRuns(c) \/ op[c].expireLockTimer > 0)

\* a retry of the waiter failed while the holder held the lock and the deadline timer was
\* running: the call was rejected with the error, the timer is cleared
C25_Witness ==
  /\ CallFailed(Waiter) /\ op[Waiter].kind = "waitAcquire"
  /\ op[Waiter].result = [error |-> "ECONNREFUSED"]
  /\ Acquired(Holder, WaitId)
  /\ lockKey("lock", WaitId) \in DOMAIN hashes
  /\ _activeOperations[lockOf[Waiter]] = {}

\* the failed retry before its callback: not initial, the deadline timer still runs
C25_RetryFailed ==
  /\ CommandFailed(Waiter) /\ ~op[Waiter].initial
  /\ op[Waiter].expireLockTimer > 0

\* a release failed after the store had run it: the record is gone, the message is out
C25_ReleaseFailed ==
  /\ CallFailed(Holder) /\ op[Holder].kind = "release"
  /\ lockKey("lock", WaitId) \notin DOMAIN hashes
  /\ inbox[lockOf[Waiter]] # <<>>

(***************************************************************************)
(* Two namespaces: n1 uses N1 (namespace "a") for the id "b:c", n2 uses N2 *)
(* (namespace "a:b") for the id "c".                                       *)
(***************************************************************************)
idOf == [c \in Tenants |-> IF c = "n1" THEN "b:c" ELSE "c"]

NextNamespace ==
  \/ \E c \in Tenants, ttl \in Ttls : CounterHasRoom(lockOf[c]) /\ acquireLock(c, idOf[c], ttl)
  \/ \E c \in Tenants : acquireRun(c)
  \/ \E c \in Tenants : acquireReturn(c)
  \/ \E c \in Tenants, index \in 1..MaxIndex : releaseLock(c, idOf[c], index)
  \/ \E c \in Tenants : releaseRun(c)
  \/ \E c \in Tenants : releaseReturn(c)
  \/ Tick
  \/ \E l \in Locks : onMessage(l)

SpecNamespace == Init /\ [][NextNamespace]_vars

\* nothing has been acquired in the namespace of c so far
NothingAcquired(c) == GETSTR(strings, counterOf(c)) = 0

(***************************************************************************)
(* C26.  Operations of one namespace do not meet the records, the counter  *)
(* and the subscribers of another: as long as nothing has been acquired in *)
(* the namespace of a user, its acquire finds no record and is granted and *)
(* its release finds no record ("expired") and deletes nothing; no         *)
(* operation changes the counter of another namespace, and a release       *)
(* delivers no message to an instance of another namespace.                *)
(***************************************************************************)
C26_NamespacesIsolated ==
  [][\A c \in Tenants :
       /\ (AcquireRan(c) /\ NothingAcquired(c)) =>
            /\ truthy(op'[c].evalResponse[1])
            /\ keyOf(c) \notin DOMAIN hashes
       /\ (ReleaseRan(c) /\ NothingAcquired(c)) =>
            /\ op'[c].evalResponse[2] = Str("expired")
            /\ hashes' = hashes
       /\ (AcquireRan(c) \/ ReleaseRan(c)) =>
            /\ \A d \in Tenants \ {c} :
                 GETSTR(strings', counterOf(d)) = GETSTR(strings, counterOf(d))
            /\ \A l \in Locks :
                 _namespace[l] # _namespace[lockOf[c]] => inbox'[l] = inbox[l]
    ]_vars

\* n1 holds "b:c" in namespace "a"; the acquire of "c" in namespace "a:b", where nothing
\* was acquired before, has been refused
C26_Collision ==
  /\ Acquired("n1", "b:c")
  /\ op["n2"].pc = "replied" /\ op["n2"].kind = "acquire" /\ op["n2"].id = "c"
  /\ op["n2"].evalResponse[1] = Num(0)
  /\ GETSTR(strings, counterKey("a:b")) = 0

(***************************************************************************)
(* Construction: no instance exists at the start.  c1 and c2 make L1 and   *)
(* L2, with or without options.redis, and use them for one id.             *)
(***************************************************************************)
InitUnbuilt ==
  /\ hashes = [k \in {} |-> [index |-> 0, pttl |-> 0]]
  /\ strings = [k \in {} |-> 0]
  /\ inbox = [l \in Locks |-> <<>>]
  /\ op = [c \in Users |-> Idle]
  /\ _activeOperations = [l \in Locks |-> {}]
  /\ _closeCompletion = [l \in Locks |-> "null"]
  /\ _closingPrimary = [l \in Locks |-> "null"]
  /\ _readyToClose = [l \in Locks |-> "null"]
  /\ _redisConnection = [l \in Locks |-> "none"]
  /\ _redisSubscriber = [l \in Locks |-> "none"]
  /\ _subscribers = [l \in Locks |-> {}]
  /\ closeCalls = [l \in Locks |-> [n |-> 0, arg |-> "none", outcome |-> "none"]]

NextConstruct ==
  \/ \E c \in Callers, redis \in RedisOptions : constructor(c, redis)
  \/ \E c \in Callers, ttl \in Ttls :
       ~Unbuilt(lockOf[c]) /\ CounterHasRoom(lockOf[c]) /\ acquireLock(c, WaitId, ttl)
  \/ \E c \in Callers : acquireRun(c)
  \/ \E c \in Callers : acquireReturn(c)
  \/ \E c \in Callers, index \in 1..MaxIndex :
       ~Unbuilt(lockOf[c]) /\ releaseLock(c, WaitId, index)
  \/ \E c \in Callers : releaseRun(c)
  \/ \E c \in Callers : releaseReturn(c)
  \/ Tick
  \/ \E l \in Locks : onMessage(l)

SpecConstruct == InitUnbuilt /\ [][NextConstruct]_vars

(***************************************************************************)
(* C27.  new Lock(options) without options.redis throws the assertion      *)
(* error "Must provide a Redis connection string, options object, or       *)
(* client instance." and makes nothing: no command connection, no          *)
(* subscriber, no subscription, no fields of an instance; the store is not *)
(* touched.  An instance that has not been made has no operation, no       *)
(* listener and no message.                                                *)
(***************************************************************************)
C27_ConstructorAsserts ==
  /\ [][\A c \in Callers : constructor(c, "missing") =>
          /\ op'[c].pc = "rejected"
          /\ op'[c].result = [error |-> AssertionMessage]
          /\ Unbuilt(lockOf[c])'
          /\ _activeOperations' = _activeOperations /\ _subscribers' = _subscribers
          /\ _closeCompletion' = _closeCompletion /\ _closingPrimary' = _closingPrimary
          /\ _readyToClose' = _readyToClose
          /\ hashes' = hashes /\ strings' = strings /\ inbox' = inbox]_vars
  /\ [](\A l \in Locks : Unbuilt(l) =>
          /\ _activeOperations[l] = {} /\ _subscribers[l] = {} /\ inbox[l] = <<>>
          /\ \A c \in Callers : lockOf[c] = l => ~Pending(c))
  /\ [](\A l \in Locks : Unbuilt(l) \/ _redisConnection[l] = "open")

\* new Lock without options.redis has thrown for c1: there is no L1, while L2 is in use
\* and a release through it has been published
C27_Witness ==
  /\ op["c1"] = Failed("new", AssertionMessage)
  /\ Unbuilt("L1")
  /\ inbox["L1"] = <<>> /\ inbox["L2"] # <<>>
  /\ op["c2"].pc = "replied" /\ op["c2"].kind = "release"

(***************************************************************************)
(* C28.  The option resourceCount (or number) is not read by the           *)
(* constructor, and the acquire script refuses whenever a record of the id *)
(* exists: with the option set to 2 an id still has one holder at a time.  *)
(* An acquire of an id that has a record is refused and leaves the store   *)
(* as it is; an acquire of an id without a record (never acquired,         *)
(* released or expired) succeeds.                                          *)
(***************************************************************************)
resourceCount == 2

DeadlineFired(c) ==
  /\ op[c].kind = "waitAcquire" /\ op[c].expireLockTimer = 0
  /\ op'[c].expireLockTimer = NoTimer
  /\ op'[c].pc \in {"run", "replied", "waiting"}
\* the call of c returns the outcome of the attempt whose reply it has
ReturnsReply(c) ==
  /\ op[c].pc = "replied" /\ op'[c].pc = "done" /\ op'[c].kind = "waitAcquire"
  /\ op'[c].result.id = op[c].id
  /\ op'[c].result.success = truthy(op[c].evalResponse[1])
  /\ op'[c].result.index = op[c].evalResponse[2]

C29_DeadlineFinalAttempt ==
  /\ [][\A c \in Waiters : DeadlineFired(c) =>
          /\ op'[c].expired
          /\ Listener(c) \notin _subscribers'[lockOf[c]]
          /\ op'[c].ttlTimer = NoTimer
          /\ IF op[c].acquiring
             THEN /\ op'[c].pc = op[c].pc /\ op[c].pc \in {"run", "replied"}
                  /\ op'[c].evalResponse = op[c].evalResponse
                  /\ op'[c].initial = op[c].initial
             ELSE /\ op[c].pc = "waiting"
                  /\ op'[c].pc = "run" /\ op'[c].acquiring]_vars
  /\ [][\A c \in Waiters : (op[c].expired /\ op'[c] # op[c]) =>
          \/ WaitRan(c) /\ op'[c].expired
          \/ ReturnsReply(c)]_vars
  /\ [](\A c \in Waiters : op[c].expired =>
          /\ op[c].pc \in {"run", "replied"} /\ op[c].acquiring
          /\ op[c].ttlTimer = NoTimer /\ op[c].expireLockTimer = NoTimer
          /\ Listener(c) \notin _subscribers[lockOf[c]])

\* the deadline has passed and the attempt it started (or found in flight after a
\* retry) was refused: the call is about to return success:false
C29_Witness ==
  /\ op[Waiter].kind = "waitAcquire" /\ op[Waiter].pc = "replied"
  /\ op[Waiter].expired /\ ~op[Waiter].initial
  /\ op[Waiter].evalResponse[1] = Num(0)

\* the deadline has passed while the first attempt was in flight, and that attempt
\* was granted
C29_InFlight ==
  /\ op[Waiter].kind = "waitAcquire" /\ op[Waiter].pc = "replied"
  /\ op[Waiter].expired /\ op[Waiter].initial
  /\ op[Waiter].evalResponse[1] = Num(1)

(***************************************************************************)
(* Several waiters of one instance.  c2 (through L2) acquires WaitId and   *)
(* c1 acquires OtherId, once each, and they release what they hold; w1     *)
(* waits for WaitId and w2 for either id, both through L1, without a       *)
(* deadline and while the id is held.  Every call is made once, so the     *)
(* counter stays below the number of users.  No time passes here: waiters  *)
(* are woken by messages only.                                             *)
(***************************************************************************)
OtherId == "R2"
heldBy == [c \in Callers |-> IF c = Holder THEN WaitId ELSE OtherId]
NextHerd ==
  \/ \E c \in Callers : op[c].pc = "idle" /\ acquireLock(c, heldBy[c], MaxTtl)
  \/ \E c \in Callers : acquireRun(c)
  \/ \E c \in Callers : acquireReturn(c)
  \/ \E c \in Callers :
       /\ Acquired(c, heldBy[c])
       /\ releaseLock(c, heldBy[c], op[c].result.index.num)
  \/ \E c \in Callers : releaseRun(c)
  \/ \E c \in Callers : releaseReturn(c)
  \/ \E c \in Waiters, id \in Ids :
       /\ op[c].pc = "idle"
       /\ c = Waiter => id = WaitId
       /\ lockKey(_namespace[lockOf[c]], id) \in DOMAIN hashes
       /\ waitAcquireLock(c, id, MaxTtl, 0)
  \/ \E c \in Waiters : waitAcquireRun(c)
  \/ \E c \in Waiters : waitAcquireCallback(c)
  \/ \E l \in Locks : onMessage(l)

SpecHerd == Init /\ [][NextHerd]_vars

\* the 'message' handler of instance l takes the first message of its inbox in this step
MessageHandled(l) == inbox[l] # <<>> /\ Len(inbox'[l]) = Len(inbox[l]) - 1
\* the listeners of instance l that this message fires
Fired(l, m) ==
  IF m.channel = releaseChannel(_namespace[l])
  THEN {p \in _subscribers[l] : p[1] = m.message} ELSE {}
\* waiters of id whose grant is the live record
LiveWaiters(id) ==
  {c \in Waiters :
     LET key == lockKey(_namespace[lockOf[c]], id)
     IN /\ key \in DOMAIN hashes /\ op[c].kind = "waitAcquire"
        /\ \/ /\ op[c].pc = "replied" /\ op[c].id = id
              /\ op[c].evalResponse[1] = Num(1)
              /\ op[c].evalResponse[2] = Num(hashes[key].index)
           \/ /\ op[c].pc = "done" /\ op[c].result.id = id /\ op[c].result.success
              /\ op[c].result.index = Num(hashes[key].index)}

(***************************************************************************)
(* C30.  A message on the release channel of an instance starts an attempt *)
(* of every call that has a listener for the key in the message, and       *)
(* removes those listeners; every other call, and every listener for       *)
(* another key, is left as it is.  A message on another channel or for a   *)
(* key without a listener is taken from the inbox and nothing else         *)
(* changes.  The store is not touched by the handler.  Of the attempts     *)
(* that follow at most one is granted (it finds no record), and a call     *)
(* whose attempt was refused registers its listener again and waits.       *)
(***************************************************************************)
C30_MessageFanOut ==
  /\ [][\A l \in Locks : MessageHandled(l) =>
          LET fired == Fired(l, Head(inbox[l]))
          IN /\ \A c \in Users :
                  IF \E p \in fired : p[2] = c
                  THEN /\ op'[c].pc = "run" /\ op'[c].acquiring /\ ~op'[c].initial
                       /\ op'[c].id = op[c].id
                  ELSE op'[c] = op[c]
             /\ _subscribers'[l] = _subscribers[l] \ fired
             /\ \A k \in Locks \ {l} : _subscribers'[k] = _subscribers[k]
             /\ hashes' = hashes /\ strings' = strings]_vars
  /\ [][\A c \in Waiters : WaitRan(c) =>
          /\ op'[c].evalResponse[1] = Num(1) <=> keyOf(c) \notin DOMAIN hashes
          /\ keyOf(c) \in DOMAIN hashes']_vars
  /\ [](\A id \in Ids : Cardinality(LiveWaiters(id)) <= 1)
  /\ [][\A c \in Waiters :
          (/\ op[c].pc = "replied" /\ op[c].kind = "waitAcquire"
           /\ op[c].evalResponse[1] = Num(0) /\ ~op[c].expired /\ op[c].err = NoError
           /\ op'[c].pc # "replied") =>
            /\ op'[c].pc = "waiting" /\ ~op'[c].acquiring
            /\ Listener(c)' \in _subscribers'[lockOf[c]]]_vars

\* w1 and w2 waited for WaitId and were woken by the message of its release: the
\* attempt of w1 was granted, w2 was refused and has registered again
C30_Witness ==
  /\ op["w1"].kind = "waitAcquire" /\ op["w1"].pc = "replied" /\ op["w1"].id = WaitId
  /\ ~op["w1"].initial /\ op["w1"].evalResponse[1] = Num(1)
  /\ op["w2"].kind = "waitAcquire" /\ op["w2"].pc = "waiting" /\ op["w2"].id = WaitId
  /\ ~op["w2"].initial
  /\ _subscribers["L1"] = {<<lockKey("lock", WaitId), "w2">>}

\* the message of the release of WaitId has woken w1 and has left w2, which waits
\* for OtherId, where it was
C30_OtherKey ==
  /\ op["w1"].kind = "waitAcquire" /\ op["w1"].pc = "run" /\ ~op["w1"].initial
  /\ op["w2"].kind = "waitAcquire" /\ op["w2"].pc = "waiting" /\ op["w2"].initial
  /\ op["w2"].id = OtherId
  /\ _subscribers["L1"] = {<<lockKey("lock", OtherId), "w2">>}

(***************************************************************************)
(* C31.  _activeOperations of an instance holds exactly the calls made     *)
(* through it that have not returned: a call of acquireLock, releaseLock,  *)
(* renewLock or waitAcquireLock adds one entry when it starts and removes  *)
(* it when it returns.  The attempts of a waitAcquireLock call (the first, *)
(* and the retries started by a message or a timer) add and remove         *)
(* nothing: while the call goes on, _activeOperations stays as it is       *)
(* unless another call starts or returns.                                  *)
(***************************************************************************)
Outstanding(l) == {c \in Users : lockOf[c] = l /\ Pending(c)}

C31_OneEntryPerCall ==
  /\ [](\A l \in Locks :
          /\ _activeOperations[l] = Outstanding(l)
          /\ Cardinality(_activeOperations[l]) = Cardinality(Outstanding(l)))
  /\ [][(\A c \in Users : Pending(c) <=> Pending(c)') =>
          _activeOperations' = _activeOperations]_vars

\* the waitAcquireLock call of w1 has a retry in flight while c1 has a release in
\* flight: two entries
C31_Witness ==
  /\ op[Waiter].kind = "waitAcquire" /\ op[Waiter].pc = "run" /\ ~op[Waiter].initial
  /\ op["c1"].kind = "release" /\ op["c1"].pc = "run"
  /\ _activeOperations["L1"] = {"c1", Waiter}

(***************************************************************************)
(* The retry delay: one hand-over in which the holder's ttl is short or    *)
(* longer than the minimum delay of a retry, so that both values of        *)
(* Math.max(lock.ttl, 100) occur.                                          *)
(***************************************************************************)
HolderTtls == {MaxTtl, MinRetryDelay + MaxTtl}
NextRetryDelay ==
  \/ \E ttl \in HolderTtls :
       op[Holder].pc = "idle" /\ CounterHasRoom(lockOf[Holder])
       /\ acquireLock(Holder, WaitId, ttl)
  \/ acquireRun(Holder)
  \/ acquireReturn(Holder)
  \/ \E index \in 1..MaxIndex :
       /\ Acquired(Holder, WaitId) /\ op[Holder].result.index = Num(index)
       /\ releaseLock(Holder, WaitId, index)
  \/ releaseRun(Holder)
  \/ releaseReturn(Holder)
  \/ \E waitTtl \in {0, MaxWait} :
       /\ op[Waiter].pc = "idle"
       /\ lockKey(_namespace[lockOf[Waiter]], WaitId) \in DOMAIN hashes
       /\ CounterHasRoom(lockOf[Waiter])
       /\ waitAcquireLock(Waiter, WaitId, MaxTtl, waitTtl)
  \/ waitAcquireRun(Waiter)
  \/ waitAcquireCallback(Waiter)
  \/ ttlTimerFire(Waiter)
  \/ expireLockTimerFire(Waiter)
  \/ Tick
  \/ \E l \in Locks : onMessage(l)

SpecRetryDelay == Init /\ [][NextRetryDelay]_vars

\* the callback of a refused attempt registers the call of c as a waiter in this step
Registers(c) ==
  op[c].kind = "waitAcquire" /\ op[c].pc = "replied" /\ op'[c].pc = "waiting"
\* an attempt of the waiting call of c starts in this step
Retries(c) == op[c].pc = "waiting" /\ op'[c].pc = "run"
\* ... because the message handler emits the key of c
WokenByMessage(c) ==
  /\ MessageHandled(lockOf[c])
  /\ Head(inbox[lockOf[c]]).channel = releaseChannel(_namespace[lockOf[c]])
  /\ Head(inbox[lockOf[c]]).message = keyOf(c)
\* ... because the deadline of c has passed
WokenByDeadline(c) == op[c].expireLockTimer = 0 /\ op'[c].expired

(***************************************************************************)
(* C32.  A refused attempt that is not the last one sets ttlTimer to       *)
(* Math.max(lock.ttl, 100), lock.ttl being the PTTL the script reported;   *)
(* so the timer is never set to less than 100 ms.  While the call waits    *)
(* the timer only runs down, one millisecond at a time.  An attempt starts *)
(* while the timer still has time left only when the message of a release  *)
(* of the key arrives or when the deadline of the call passes.             *)
(***************************************************************************)
C32_RetryDelay ==
  /\ [][\A c \in Waiters : Registers(c) =>
          /\ op'[c].ttlTimer = Max(op[c].evalResponse[3].num, MinRetryDelay)
          /\ op'[c].ttlTimer >= MinRetryDelay]_vars
  /\ [][\A c \in Waiters : (op[c].pc = "waiting" /\ op'[c].pc = "waiting") =>
          op'[c].ttlTimer \in {op[c].ttlTimer, op[c].ttlTimer - 1}]_vars
  /\ [][\A c \in Waiters : (Retries(c) /\ op[c].ttlTimer # 0) =>
          WokenByMessage(c) \/ WokenByDeadline(c)]_vars

\* the statement as given: before the timer is due only a message starts an attempt
C32_OnlyMessageEarlier ==
  [][\A c \in Waiters : (Retries(c) /\ op[c].ttlTimer # 0) => WokenByMessage(c)]_vars

\* the holder's record has more than 100 ms left: the waiter has just set its timer
\* to that time
C32_Witness ==
  /\ op[Waiter].kind = "waitAcquire" /\ op[Waiter].pc = "waiting"
  /\ op[Waiter].ttlTimer > MinRetryDelay
  /\ lockKey("lock", WaitId) \in DOMAIN hashes
  /\ hashes[lockKey("lock", WaitId)].pttl = op[Waiter].ttlTimer

\* the record was in its last millisecond (PTTL 0) when the attempt was refused: the
\* timer is set to 100 ms, and the record is gone before it is due
C32_MinDelay ==
  /\ op[Waiter].kind = "waitAcquire" /\ op[Waiter].pc = "waiting"
  /\ op[Waiter].ttlTimer = MinRetryDelay - 1
  /\ lockKey("lock", WaitId) \notin DOMAIN hashes
  /\ inbox["L1"] = <<>> /\ op[Holder].kind = "acquire"

\* the pending waitAcquireLock call of c has no deadline: none is set, none has passed
NoDeadline(c) ==
  /\ op[c].kind = "waitAcquire" /\ Pending(c)
  /\ op[c].expireLockTimer = NoTimer /\ ~op[c].expired

(***************************************************************************)
(* C33.  waitAcquireLock with waitTtl = 0 sets no expireLockTimer.  A call *)
(* without a deadline stays without one, and it ends in two ways only: it  *)
(* resolves with success:true, or it rejects with the error of a command.  *)
(* Its refused attempts register the listener and set ttlTimer again.      *)
(***************************************************************************)
C33_NoDeadline ==
  /\ [][\A c \in Waiters :
          (waitAcquireLock(c, WaitId, MaxTtl, 0) /\ op'[c].pc = "run") =>
            NoDeadline(c)']_vars
  /\ [][\A c \in Waiters : (NoDeadline(c) /\ op'[c] # op[c]) =>
          \/ NoDeadline(c)'
          \/ /\ op'[c].pc = "done" /\ op'[c].kind = "waitAcquire"
             /\ op'[c].result.success
             /\ op[c].pc = "replied" /\ op[c].evalResponse[1] = Num(1)
          \/ /\ CallFailed(c)' /\ CommandFailed(c)]_vars
  /\ [][\A c \in Waiters :
          (/\ NoDeadline(c) /\ op[c].pc = "replied" /\ op[c].err = NoError
           /\ op[c].evalResponse[1] = Num(0) /\ op'[c].pc # "replied") =>
            /\ op'[c].pc = "waiting" /\ op'[c].ttlTimer >= MinRetryDelay
            /\ Listener(c)' \in _subscribers'[lockOf[c]]]_vars

\* a call without a deadline was refused and has waited until its ttlTimer is due: it
\* has not returned, 100 ms after the refusal
C33_Witness ==
  /\ NoDeadline(Waiter) /\ op[Waiter].pc = "waiting" /\ op[Waiter].initial
  /\ op[Waiter].ttlTimer = 0
  /\ Listener(Waiter) \in _subscribers["L1"]
  /\ lockKey("lock", WaitId) \notin DOMAIN hashes

\* the listeners of the calls of c
ListenersOf(c) == {p \in _subscribers[lockOf[c]] : p[2] = c}
\* an attempt of the waitAcquireLock call of c is in flight
InFlight(c) == op[c].kind = "waitAcquire" /\ op[c].pc \in {"run", "replied"}

(***************************************************************************)
(* C34.  A waitAcquireLock call has a listener or a running ttlTimer only  *)
(* while it waits, with no attempt in flight (acquiring is false); it has  *)
(* one listener at most.  acquiring is true exactly while an attempt is in *)
(* flight.  An attempt starts only when none is in flight, and it leaves   *)
(* neither listener nor ttlTimer behind, so that a message, the ttlTimer   *)
(* and the deadline that come while it is in flight start nothing: the     *)
(* attempt goes from the store to its callback undisturbed.                *)
(***************************************************************************)
C34_OneAttemptInFlight ==
  /\ [](\A c \in Waiters :
          /\ (ListenersOf(c) # {} \/ op[c].ttlTimer # NoTimer) =>
               /\ op[c].kind = "waitAcquire" /\ op[c].pc = "waiting"
               /\ ~op[c].acquiring
               /\ ListenersOf(c) = {Listener(c)}
          /\ op[c].acquiring <=> InFlight(c))
  /\ [][\A c \in Waiters : (op[c].pc # "run" /\ op'[c].pc = "run") =>
          /\ ~op[c].acquiring /\ op[c].pc # "replied"
          /\ ListenersOf(c)' = {} /\ op'[c].ttlTimer = NoTimer]_vars
  /\ [][\A c \in Waiters : (InFlight(c) /\ op'[c] # op[c]) =>
          \/ /\ op[c].pc = "run" /\ op'[c].pc \in {"run", "replied"}
             /\ op[c].pc = op'[c].pc => op'[c].evalResponse = op[c].evalResponse
          \/ /\ op[c].pc = "replied"
             /\ \/ op'[c].pc \in {"done", "rejected", "waiting"}
                \/ /\ op'[c].pc = "replied"
                   /\ op'[c].evalResponse = op[c].evalResponse]_vars

\* a timer of w1 has started an attempt while the message of the release is still
\* in the inbox of L1: the message will find no listener
C34_Witness ==
  /\ op[Waiter].kind = "waitAcquire" /\ op[Waiter].pc = "run" /\ ~op[Waiter].initial
  /\ inbox["L1"] # <<>>
  /\ Head(inbox["L1"]).message = lockKey("lock", WaitId)
  /\ _subscribers["L1"] = {}

\* the waitAcquireLock call of c has resolved or rejected
Settled(c) == op[c].kind = "waitAcquire" /\ op[c].pc \in {"done", "rejected"}
\* the script of an attempt of c creates the record in this step
RecordCreated(c) ==
  /\ op[c].kind = "waitAcquire" /\ op[c].pc = "run" /\ op'[c].pc = "replied"
  /\ keyOf(c) \notin DOMAIN hashes /\ keyOf(c) \in DOMAIN hashes'

(***************************************************************************)
(* C35.  A waitAcquireLock call that has resolved or rejected has no       *)
(* listener, no ttlTimer and no expireLockTimer, and nothing changes it:   *)
(* it makes no attempt.  _subscribers of an instance is empty whenever no  *)
(* waitAcquireLock call through it is pending.  An attempt whose reply     *)
(* says that the lock was acquired ends the call with success:true and the *)
(* index of the record.  (When the command fails after the store has run   *)
(* the script, the record exists and the call rejects with the error.)     *)
(***************************************************************************)
C35_SettledIsQuiet ==
  /\ [](\A c \in Waiters : ~InFlight(c) /\ op[c].pc # "waiting" =>
          /\ ListenersOf(c) = {}
          /\ op[c].ttlTimer = NoTimer /\ op[c].expireLockTimer = NoTimer)
  /\ [][\A c \in Waiters : Settled(c) =>
          /\ op'[c] = op[c]
          /\ ListenersOf(c)' = {}]_vars
  /\ [](\A l \in Locks :
          (\A c \in Users : lockOf[c] = l => ~(op[c].kind = "waitAcquire" /\ Pending(c)))
            => _subscribers[l] = {})
  /\ [][\A c \in Waiters :
          (/\ op[c].kind = "waitAcquire" /\ op[c].pc = "replied" /\ op[c].err = NoError
           /\ op[c].evalResponse[1] = Num(1) /\ op'[c].pc # "replied") =>
            /\ op'[c].pc = "done" /\ op'[c].result.success
            /\ op'[c].result.id = op[c].id
            /\ op'[c].result.index = op[c].evalResponse[2]]_vars
  /\ [][\A c \in Waiters : (RecordCreated(c) /\ op'[c].err = NoError) =>
          /\ op'[c].evalResponse[1] = Num(1)
          /\ op'[c].evalResponse[2] = Num(hashes'[keyOf(c)].index)]_vars

\* the statement as given: whenever an attempt creates a record, the call gets the reply
\* that carries its handle
C35_HandleReturned ==
  [][\A c \in Waiters : RecordCreated(c) =>
       /\ op'[c].err = NoError
       /\ op'[c].evalResponse[1] = Num(1)]_vars

\* the call has resolved with the lock after a retry, its deadline not reached: the
\* record is there, and neither timer nor listener is left
C35_Witness ==
  /\ Settled(Waiter) /\ op[Waiter].pc = "done" /\ op[Waiter].result.success
  /\ ~op[Waiter].result.immediate
  /\ lockKey("lock", WaitId) \in DOMAIN hashes
  /\ op[Waiter].result.index = Num(hashes[lockKey("lock", WaitId)].index)
  /\ _subscribers["L1"] = {}

\* the store has run the script of a retry, the reply was lost: the call has rejected
\* and the record it created is there
C35_LostReply ==
  /\ CallFailed(Waiter) /\ op[Waiter].kind = "waitAcquire"
  /\ lockKey("lock", WaitId) \in DOMAIN hashes
  /\ op[Holder].kind = "release" /\ op[Holder].pc = "done"

(***************************************************************************)
(* Failing commands while an instance is closed: c1 acquires and releases  *)
(* WaitId and w1 waits for it, both through L1; any command may fail; L1   *)
(* is closed at any time.                                                  *)
(***************************************************************************)
NextFailClose ==
  \/ CounterHasRoom(lockOf["c1"]) /\ acquireLock("c1", WaitId, MaxTtl)
  \/ acquireRun("c1")
  \/ acquireReturn("c1")
  \/ \E index \in 1..MaxIndex : OwnHandle("c1", index) /\ releaseLock("c1", WaitId, index)
  \/ releaseRun("c1")
  \/ releaseReturn("c1")
  \/ \E waitTtl \in {0, MaxWait} :
       op[Waiter].pc = "idle" /\ CounterHasRoom(lockOf[Waiter])
       /\ waitAcquireLock(Waiter, WaitId, MaxTtl, waitTtl)
  \/ waitAcquireRun(Waiter)
  \/ waitAcquireCallback(Waiter)
  \/ ttlTimerFire(Waiter)
  \/ expireLockTimerFire(Waiter)
  \/ \E c \in {"c1", Waiter}, err \in TransportErrors, executed \in BOOLEAN :
       scriptFail(c, err, executed)
  \/ Tick
  \/ \E l \in Locks : onMessage(l)
  \/ close(Closed, "default")
  \/ _closeQuit(Closed)

SpecFailClose == Init /\ [][NextFailClose]_vars

(***************************************************************************)
(* C36.  When the command of a call has failed, the step that rejects the  *)
(* call removes its entry from _activeOperations, as the step that         *)
(* resolves a call does; if it was the last entry and close() waits, close *)
(* goes on to QUIT in that step.  So _activeOperations holds exactly the   *)
(* calls that have not returned, no rejected call is in it, and a close    *)
(* that waits has a call to wait for.                                      *)
(***************************************************************************)
C36_FailureReleasesEntry ==
  /\ [][\A c \in Users : (CommandFailed(c) /\ op'[c].pc # "replied") =>
          /\ CallFailed(c)'
          /\ _activeOperations'[lockOf[c]] = _activeOperations[lockOf[c]] \ {c}
          /\ (_activeOperations'[lockOf[c]] = {}
                /\ _closeCompletion[lockOf[c]] = "waitReady") =>
               _closeCompletion'[lockOf[c]] = "quitting"]_vars
  /\ [][\A c \in Users : (op[c].pc = "replied" /\ op'[c].pc = "done") =>
          /\ _activeOperations'[lockOf[c]] = _activeOperations[lockOf[c]] \ {c}
          /\ (_activeOperations'[lockOf[c]] = {}
                /\ _closeCompletion[lockOf[c]] = "waitReady") =>
               _closeCompletion'[lockOf[c]] = "quitting"]_vars
  /\ [](\A l \in Locks :
          /\ _activeOperations[l] = Outstanding(l)
          /\ _closeCompletion[l] = "waitReady" => Outstanding(l) # {})

\* an acquireLock and a waitAcquireLock through L1 have failed, L1 was closed, and
\* close has resolved
C36_Witness ==
  /\ CallFailed("c1") /\ op["c1"].kind = "acquire"
  /\ CallFailed(Waiter) /\ op[Waiter].kind = "waitAcquire"
  /\ closeCalls[Closed].n > 0
  /\ _closeCompletion[Closed] = "resolved"
  /\ _activeOperations[Closed] = {}

(***************************************************************************)
(* Draining, fair: the store answers, time passes, and the process runs    *)
(* the callbacks that are due and the continuation of _close.              *)
(***************************************************************************)
FairDrain ==
  /\ \A c \in Waiters : WF_vars(waitAcquireRun(c))
  /\ \A c \in Waiters : WF_vars(waitAcquireCallback(c))
  /\ \A c \in Waiters : WF_vars(ttlTimerFire(c))
  /\ \A c \in Waiters : WF_vars(expireLockTimerFire(c))
  /\ WF_vars(Tick)
  /\ WF_vars(_closeQuit(Closed))

SpecDrainFair == SpecDrain /\ FairDrain

(***************************************************************************)
(* C37.  close() never waits for nothing: while it waits, _readyToClose is *)
(* pending and _activeOperations is not empty, and the step that empties   *)
(* _activeOperations moves it on to QUIT; with _activeOperations empty     *)
(* when it is called, close goes to QUIT at once.  From QUIT it resolves.  *)
(* When the calls in flight end (here they all do: the lock of one waiter  *)
(* expires and the other gets it), a close that has begun resolves.        *)
(***************************************************************************)
C37_CloseTerminates ==
  /\ [](\A l \in Locks :
          /\ _closeCompletion[l] = "waitReady" =>
               _activeOperations[l] # {} /\ _readyToClose[l] = "pending"
          /\ _closeCompletion[l] \in {"quitting", "resolved"} =>
               _activeOperations[l] = {})
  /\ (_closeCompletion[Closed] = "quitting") ~> (_closeCompletion[Closed] = "resolved")
  /\ (_closeCompletion[Closed] # "null") ~> (_closeCompletion[Closed] = "resolved")

\* close() had to wait, and the return of the last of two waitAcquireLock calls has
\* woken it: QUIT is on its way
C37_Witness ==
  /\ _closeCompletion[Closed] = "quitting" /\ _readyToClose[Closed] = "resolved"
  /\ \A c \in Waiters : WaitDone(c)
  /\ \E c \in Waiters : ~op[c].result.immediate

(***************************************************************************)
(* Closing while a call waits: the holder (through L2) acquires WaitId     *)
(* once and may release it; the waiter calls waitAcquireLock once, through *)
(* L1, which is closed at any time.  In the fair version the store         *)
(* answers, time passes, messages are handled, and the process runs the    *)
(* callbacks that are due and the continuation of _close.                  *)
(***************************************************************************)
NextCloseWait ==
  \/ \E ttl \in Ttls :
       op[Holder].pc = "idle" /\ CounterHasRoom(lockOf[Holder])
       /\ acquireLock(Holder, WaitId, ttl)
  \/ acquireRun(Holder)
  \/ acquireReturn(Holder)
  \/ \E index \in 1..MaxIndex :
       /\ Acquired(Holder, WaitId) /\ op[Holder].result.index = Num(index)
       /\ releaseLock(Holder, WaitId, index)
  \/ releaseRun(Holder)
  \/ releaseReturn(Holder)
  \/ \E waitTtl \in 0..MaxWait :
       op[Waiter].pc = "idle" /\ CounterHasRoom(lockOf[Waiter])
       /\ waitAcquireLock(Waiter, WaitId, MaxTtl, waitTtl)
  \/ waitAcquireRun(Waiter)
  \/ waitAcquireCallback(Waiter)
  \/ ttlTimerFire(Waiter)
  \/ expireLockTimerFire(Waiter)
  \/ Tick
  \/ \E l \in Locks : onMessage(l)
  \/ close(Closed, "default")
  \/ _closeQuit(Closed)

SpecCloseWait == Init /\ [][NextCloseWait]_vars

FairCloseWait ==
  /\ WF_vars(waitAcquireRun(Waiter)) /\ WF_vars(waitAcquireCallback(Waiter))
  /\ WF_vars(ttlTimerFire(Waiter)) /\ WF_vars(expireLockTimerFire(Waiter))
  /\ WF_vars(Tick)
  /\ \A l \in Locks : WF_vars(onMessage(l))
  /\ WF_vars(_closeQuit(Closed))

SpecCloseWaitFair == SpecCloseWait /\ FairCloseWait

\* the pending waitAcquireLock call of c has a deadline, running or passed
DeadlineSet(c) ==
  /\ op[c].kind = "waitAcquire" /\ Pending(c)
  /\ op[c].expireLockTimer # NoTimer \/ op[c].expired

(***************************************************************************)
(* C38.  While a waitAcquireLock call through an instance is pending, its  *)
(* close() has sent no QUIT.  The call goes on while the instance is       *)
(* closing: no step rejects it.  Without a deadline, an attempt that finds *)
(* the record of the id is refused and the call waits again, close()       *)
(* still waiting: as long as every attempt finds the id held, close() does *)
(* not resolve.  With a deadline, the reply of the attempt that is in      *)
(* flight or started when the deadline passes ends the call, and close()   *)
(* goes on to QUIT in that step if nothing else is pending; so a close()   *)
(* that waits for a call with a deadline resolves.                         *)
(***************************************************************************)
C38_CloseWaitsForLoop ==
  /\ [](\A c \in Waiters : (op[c].kind = "waitAcquire" /\ Pending(c)) =>
          _closeCompletion[lockOf[c]] \in {"null", "waitReady"})
  /\ [][\A c \in Waiters :
          (/\ _closeCompletion[lockOf[c]] = "waitReady"
           /\ op[c].kind = "waitAcquire" /\ Pending(c)) => op'[c].pc # "rejected"]_vars
  /\ [][\A c \in Waiters :
          (/\ _closeCompletion[lockOf[c]] = "waitReady" /\ NoDeadline(c)
           /\ WaitRan(c) /\ keyOf(c) \in DOMAIN hashes) =>
            /\ op'[c].evalResponse[1] = Num(0)
            /\ NoDeadline(c)']_vars
  /\ [][\A c \in Waiters :
          (/\ _closeCompletion[lockOf[c]] = "waitReady" /\ NoDeadline(c)
           /\ op[c].pc = "replied" /\ op[c].evalResponse[1] = Num(0)
           /\ op'[c].pc # "replied") =>
            /\ op'[c].pc = "waiting" /\ NoDeadline(c)'
            /\ _closeCompletion'[lockOf[c]] = "waitReady"]_vars
  /\ [][\A c \in Waiters :
          (/\ _closeCompletion[lockOf[c]] = "waitReady" /\ op[c].expired
           /\ op[c].pc = "replied" /\ op'[c].pc # "replied") =>
            /\ op'[c].pc = "done"
            /\ _closeCompletion'[lockOf[c]] =
                 IF _activeOperations[lockOf[c]] = {c} THEN "quitting" ELSE "waitReady"]_vars
  /\ (_closeCompletion[Closed] = "waitReady" /\ DeadlineSet(Waiter))
       ~> (_closeCompletion[Closed] = "resolved")

\* close() waits for a call without a deadline that was refused while L1 was closing
\* and waits again; the record of the holder is there
C38_Witness ==
  /\ _closeCompletion[Closed] = "waitReady"
  /\ NoDeadline(Waiter) /\ op[Waiter].pc = "waiting"
  /\ _activeOperations[Closed] = {Waiter}
  /\ Acquired(Holder, WaitId)
  /\ lockKey("lock", WaitId) \in DOMAIN hashes

\* close() has resolved after a call with a deadline returned success:false
C38_AfterDeadline ==
  /\ _closeCompletion[Closed] = "resolved"
  /\ WaitDone(Waiter) /\ ~op[Waiter].result.success /\ ~op[Waiter].result.immediate
  /\ closeCalls[Closed].n = 1

\* a message reaches the inbox of some instance in this step
Published == \E l \in Locks : Len(inbox'[l]) > Len(inbox[l])
\* the record of key goes away in this step
RecordGone(key) == key \in DOMAIN hashes /\ key \notin DOMAIN hashes'

(***************************************************************************)
(* C39.  A message is published only in the step in which the store runs   *)
(* a release script that deletes the record (its index matches; the reply  *)
(* is "released"), and the message is the key of that record.  The script  *)
(* of an acquire, of an attempt of waitAcquireLock, and of a release that  *)
(* replies "conflict" or "expired" publishes nothing.  When a record goes  *)
(* away without a release, by its ttl, nothing is published and every      *)
(* waiter stays where it is: it is woken by ttlTimer or by its deadline.   *)
(***************************************************************************)
C39_OnlyReleasePublishes ==
  /\ [][Published =>
          \E c \in Users :
            /\ ReleaseRan(c) /\ RecordGone(keyOf(c))
            /\ op'[c].evalResponse[2] = Str("released")
            /\ \A l \in {"L1", "L2"} :
                 inbox'[l] = Append(inbox[l],
                                    [channel |-> releaseChannel(_namespace[lockOf[c]]),
                                     message |-> keyOf(c)])]_vars
  /\ [][\A c \in Users :
          \/ AcquireRan(c) \/ WaitRan(c)
          \/ ReleaseRan(c) /\ op'[c].evalResponse[2] \in {Str("conflict"), Str("expired")}
          => inbox' = inbox /\ (ReleaseRan(c) => hashes' = hashes)]_vars
  /\ [][\A id \in Ids :
          (RecordGone(lockKey("lock", id)) /\ \A c \in Users : ~ReleaseRan(c)) =>
            /\ inbox' = inbox
            /\ _subscribers' = _subscribers
            /\ \A w \in Waiters : op'[w].pc = op[w].pc]_vars

\* the record of the holder has expired, nothing was published, and the waiter still
\* waits: its ttlTimer is due
C39_Witness ==
  /\ op[Waiter].kind = "waitAcquire" /\ op[Waiter].pc = "waiting"
  /\ op[Waiter].ttlTimer = 0 /\ op[Waiter].expireLockTimer # 0
  /\ lockKey("lock", WaitId) \notin DOMAIN hashes
  /\ inbox["L1"] = <<>> /\ inbox["L2"] = <<>>
  /\ Acquired(Holder, WaitId)

\* a release of the holder met the record of the waiter: "conflict", nothing published
C39_Conflict ==
  /\ op[Holder].kind = "release" /\ op[Holder].pc = "replied"
  /\ op[Holder].evalResponse[2] = Str("conflict")
  /\ inbox["L1"] = <<>> /\ inbox["L2"] = <<>>
====
